---- MODULE Spec2Model ----
(***************************************************************************)
(* Model of the SecureDoc privacy proxy (DiggAiHH/Anonymisator):           *)
(*   - backend/services/anonymization.py  AnonymizationService             *)
(*   - backend/routers/securedoc.py       generate_securedoc pipeline      *)
(*   - backend/services/llm_client.py     LLMClient                        *)
(*   - backend/routers/billing.py         stripe_webhook                   *)
(*                                                                         *)
(* Strings are sequences of one-character strings, so that slicing,        *)
(* substring search and str.replace are computed character by character.   *)
(***************************************************************************)
EXTENDS Integers, Sequences, FiniteSets, TLC

VARIABLES
    \* ---- AnonymizationService (anonymization.py) ----
    text,                 \* the input text handed to anonymize
    sha256,               \* the digests computed so far: salt -> (original, category) -> tag
    session_salt,         \* self.session_salt
    current_mappings,     \* self.current_mappings (insertion-ordered dict)
    used_placeholders,    \* self.used_placeholders
    anonymization_stats,  \* self._anonymization_stats
    fail_on_missing_placeholders, \* self.fail_on_missing_placeholders (strict mode)
    all_matches,          \* the sorted match list of the last anonymize
    anonymized_text,      \* the masked text returned by the last anonymize
    response,             \* the text handed to reidentify
    reidentified,         \* outcome of the last reidentify
    phase,                \* position in the anonymize/reidentify/clear cycle
    prev_session,         \* salt and matches of the last session that was cleared
    \* ---- stripe_webhook (billing.py) ----
    stripe_webhook_secret, \* stripe_settings.stripe_webhook_secret ("" when not set)
    processed_events,     \* the OrderedDict: entries [event_id, processed_at], oldest first
    wall_clock,           \* int(time.time())
    delivery,             \* the last delivery handled: its input and its response
    recorded_log,         \* every ledger write so far, in order
    delivered_ok,         \* identifiers that had a verified in-window delivery
    deliveries,           \* number of deliveries handled
    \* ---- generate_securedoc (securedoc.py) and LLMClient (llm_client.py) ----
    task,                 \* request.task
    pc,                   \* where the handler stands: "idle", "attempt", "exited"
    attempt,              \* the loop variable of LLMClient.generate
    payload,              \* the last payload posted upstream for the request
    exit,                 \* how the handler left: status, detail, output_text
    rate_state,           \* _rate_state: identity -> (tokens, last)
    monotonic,            \* time.monotonic(), in seconds
    environ,              \* os.environ: the SECUREDOC_* variables
    request,              \* the last request: X-API-Key, practice_id, client host
    gate,                 \* what the checks in front of the handler decided for it
    attempts,             \* the calls of _enforce_rate_limit made on its own, in order
    max_retries,          \* llm_client.settings.llm_max_retries
    call,                 \* the last call of LLMClient.generate made on its own
    inflight,             \* the requests in the handler at the same time
    llm_api_key,          \* settings.llm_api_key ("" when not set)
    circuit_breaker_failures, \* llm_client._circuit_breaker_failures
    requests              \* number of requests handled

anonVars == <<text, sha256, session_salt, current_mappings, used_placeholders,
              anonymization_stats, fail_on_missing_placeholders, all_matches,
              anonymized_text, response, reidentified, phase, prev_session>>

hookVars == <<stripe_webhook_secret, processed_events, wall_clock, delivery,
              recorded_log, delivered_ok, deliveries>>

docVars == <<task, pc, attempt, payload, exit, rate_state, monotonic, llm_api_key,
             circuit_breaker_failures, requests, environ, request, gate, attempts,
             max_retries, call, inflight>>

\* the variables that only the client and the concurrent handlers write
sideVars == <<max_retries, call, inflight>>

vars == <<anonVars, hookVars, docVars>>

-----------------------------------------------------------------------------
(* Bounds of the model *)

\* an input text is a concatenation of at most MaxFrags fragments
MaxFrags == 3

\* webhook deliveries handled in one run
MaxDeliveries == 4

\* seconds the wall clock advances in one run
MaxTicks == 1

\* requests handled by generate_securedoc in one run
MaxRequests == 2

\* calls of _enforce_rate_limit in one run of the limiter on its own
MaxAttempts == 4

\* the requests in flight at once
MaxInflight == 2

-----------------------------------------------------------------------------
(* Characters and strings *)

UpperLetters == <<"A","B","C","D","E","F","G","H","I","J","K","L","M",
                  "N","O","P","Q","R","S","T","U","V","W","X","Y","Z">>
LowerLetters == <<"a","b","c","d","e","f","g","h","i","j","k","l","m",
                  "n","o","p","q","r","s","t","u","v","w","x","y","z">>
DigitChars == <<"0","1","2","3","4","5","6","7","8","9">>

Range(f) == {f[i] : i \in DOMAIN f}
Min(a, b) == IF a < b THEN a ELSE b
Max(a, b) == IF a > b THEN a ELSE b

\* str.upper() on one character, and on a string
UpperChar(c) ==
    IF \E i \in DOMAIN LowerLetters : LowerLetters[i] = c
    THEN UpperLetters[CHOOSE i \in DOMAIN LowerLetters : LowerLetters[i] = c]
    ELSE c
Upper(s) == [i \in DOMAIN s |-> UpperChar(s[i])]

\* str.lower() on one character, and on a string
LowerChar(c) ==
    IF \E i \in DOMAIN UpperLetters : UpperLetters[i] = c
    THEN LowerLetters[CHOOSE i \in DOMAIN UpperLetters : UpperLetters[i] = c]
    ELSE c
Lower(s) == [i \in DOMAIN s |-> LowerChar(s[i])]

\* str.strip(): leading and trailing whitespace removed
Whitespace == {" ", "\t", "\n", "\r"}
Strip(s) ==
    LET inked == {i \in DOMAIN s : s[i] \notin Whitespace}
    IN  IF inked = {} THEN <<>>
        ELSE SubSeq(s, CHOOSE i \in inked : \A j \in inked : i <= j,
                       CHOOSE i \in inked : \A j \in inked : i >= j)

\* str(counter) for a non-negative integer
RECURSIVE DecimalStr(_)
DecimalStr(n) ==
    IF n < 10 THEN <<DigitChars[n + 1]>>
    ELSE DecimalStr(n \div 10) \o <<DigitChars[(n % 10) + 1]>>

\* Python slice s[a:b] with 0-based offsets, clamped to the string
Slice(s, a, b) == SubSeq(s, Min(a, Len(s)) + 1, Min(b, Len(s)))

\* Python "p in s"
Contains(s, p) ==
    \E i \in 0..(Len(s) - Len(p)) : SubSeq(s, i + 1, i + Len(p)) = p

\* Python s.replace(old, new): every non-overlapping occurrence, left to right
RECURSIVE ReplaceFrom(_, _, _, _)
ReplaceFrom(s, old, new, i) ==
    LET hits == {j \in i..(Len(s) - Len(old) + 1) : SubSeq(s, j, j + Len(old) - 1) = old}
    IN  IF hits = {} THEN SubSeq(s, i, Len(s))
        ELSE LET first == CHOOSE j \in hits : \A k \in hits : j <= k
             IN  SubSeq(s, i, first - 1) \o new
                   \o ReplaceFrom(s, old, new, first + Len(old))
Replace(s, old, new) == ReplaceFrom(s, old, new, 1)

-----------------------------------------------------------------------------
(* PHI detector: AnonymizationService.PATTERNS                              *)
(*                                                                         *)
(* Input texts are concatenations of the fragments below.  Over that       *)
(* language only three of the eleven patterns can match: 'email',          *)
(* 'art9_health_icd10' and 'art9_genetic_biometric' (its DNA alternative). *)
(* 'date' and 'phone' need a digit at a word boundary, and every digit of  *)
(* a fragment follows a letter; 'id', 'name', 'art9_religion',             *)
(* 'art9_politics', 'art9_union' and 'art9_sexuality' need letters that no *)
(* fragment contains.  The three patterns keep their order in PATTERNS.    *)

Fragments == { <<"A","1","2">>, <<"D","N","A">>, <<"c","D","N","A">>,
               <<"@","b",".","c","c">>, <<" ">>, <<".","D">> }

RECURSIVE TextsOf(_)
TextsOf(n) ==
    IF n = 0 THEN {<<>>}
    ELSE LET shorter == TextsOf(n - 1)
         IN  shorter \cup {t \o f : t \in shorter, f \in Fragments}
Texts == TextsOf(MaxFrags) \ {<<>>}

Letters == Range(UpperLetters) \cup Range(LowerLetters)
Digits == Range(DigitChars)
\* \w
WordChars == Letters \cup Digits \cup {"_"}
WordAt(s, k) == k \in 1..Len(s) /\ s[k] \in WordChars
\* \b at 0-based offset p (between s[p] and s[p+1], 1-based)
Boundary(s, p) == WordAt(s, p) # WordAt(s, p + 1)
CharIn(s, k, class) == k \in 1..Len(s) /\ s[k] \in class

\* length of the longest run of characters of class starting at offset p
RECURSIVE RunLen(_, _, _)
RunLen(s, p, class) ==
    IF CharIn(s, p + 1, class) THEN 1 + RunLen(s, p + 1, class) ELSE 0

SetMax(S) == CHOOSE x \in S : \A y \in S : y <= x

\* 'email': \b[A-Za-z0-9._%+-]+@[A-Za-z0-9.-]+\.[A-Z|a-z]{2,}\b
EmailLocal  == Letters \cup Digits \cup {".", "_", "%", "+", "-"}
EmailDomain == Letters \cup Digits \cup {".", "-"}
EmailTld    == Letters \cup {"|"}

\* End offset of the match starting at offset p, or -1.  The greedy local part
\* must run up to the "@"; then the longest domain followed by "." and a
\* top-level part is taken, and for it the longest top-level part that ends at
\* a word boundary (the order in which the backtracking matcher tries them).
EmailEnd(s, p) ==
    LET l == RunLen(s, p, EmailLocal)
        q == p + l + 1
        m == RunLen(s, q, EmailDomain)
        TldOk(d, t) == /\ CharIn(s, q + d + 1, {"."})
                       /\ t <= RunLen(s, q + d + 1, EmailTld)
                       /\ Boundary(s, q + d + 1 + t)
        Ds == {d \in 1..m : \E t \in 2..Len(s) : TldOk(d, t)}
    IN  IF Boundary(s, p) /\ l >= 1 /\ CharIn(s, p + l + 1, {"@"}) /\ Ds # {}
        THEN LET d == SetMax(Ds)
                 t == SetMax({t \in 2..Len(s) : TldOk(d, t)})
             IN  q + d + 1 + t
        ELSE -1

\* 'art9_health_icd10': \b[A-TV-Z][0-9]{2}(?:\.[0-9A-TV-Z]{1,2})?\b
IcdLetter == Range(UpperLetters) \ {"U"}
IcdSuffix == Digits \cup IcdLetter
IcdEnd(s, p) ==
    IF /\ Boundary(s, p)
       /\ CharIn(s, p + 1, IcdLetter)
       /\ CharIn(s, p + 2, Digits)
       /\ CharIn(s, p + 3, Digits)
    THEN IF /\ CharIn(s, p + 4, {"."}) /\ CharIn(s, p + 5, IcdSuffix)
            /\ CharIn(s, p + 6, IcdSuffix) /\ Boundary(s, p + 6)
         THEN p + 6
         ELSE IF /\ CharIn(s, p + 4, {"."}) /\ CharIn(s, p + 5, IcdSuffix)
                 /\ Boundary(s, p + 5)
         THEN p + 5
         ELSE IF Boundary(s, p + 3) THEN p + 3 ELSE -1
    ELSE -1

\* 'art9_genetic_biometric': \b(?:DNA|genetisch...|...)\b with re.IGNORECASE;
\* only the DNA alternative can match a text over the fragments
GeneticEnd(s, p) ==
    IF /\ Boundary(s, p)
       /\ p + 3 <= Len(s)
       /\ Upper(SubSeq(s, p + 1, p + 3)) = <<"D","N","A">>
       /\ Boundary(s, p + 3)
    THEN p + 3
    ELSE -1

\* the patterns in dict order
PATTERNS == <<"email", "art9_health_icd10", "art9_genetic_biometric">>

\* the category names as strings
CategoryName(category) ==
    CASE category = "email" -> <<"e","m","a","i","l">>
      [] category = "art9_health_icd10" ->
            <<"a","r","t","9","_","h","e","a","l","t","h","_","i","c","d","1","0">>
      [] category = "art9_genetic_biometric" ->
            <<"a","r","t","9","_","g","e","n","e","t","i","c","_",
              "b","i","o","m","e","t","r","i","c">>

MatchEnd(category, s, p) ==
    CASE category = "email" -> EmailEnd(s, p)
      [] category = "art9_health_icd10" -> IcdEnd(s, p)
      [] category = "art9_genetic_biometric" -> GeneticEnd(s, p)

\* pattern.finditer(text): leftmost non-overlapping matches
RECURSIVE FindIter(_, _, _)
FindIter(category, s, p) ==
    IF p >= Len(s) THEN <<>>
    ELSE LET e == MatchEnd(category, s, p)
         IN  IF e > p
             THEN <<[start |-> p, end |-> e, original |-> SubSeq(s, p + 1, e),
                     category |-> category]>> \o FindIter(category, s, e)
             ELSE FindIter(category, s, p + 1)

\* the matches in the order the two nested loops of anonymize visit them
RECURSIVE DetectFrom(_, _)
DetectFrom(s, k) ==
    IF k > Len(PATTERNS) THEN <<>>
    ELSE FindIter(PATTERNS[k], s, 0) \o DetectFrom(s, k + 1)
Detect(s) == DetectFrom(s, 1)

-----------------------------------------------------------------------------
(* Numbers: Python floats as exact fractions, and the process environment *)

RECURSIVE GCD(_, _)
GCD(a, b) == IF b = 0 THEN a ELSE GCD(b, a % b)

\* the fraction n/d in lowest terms, d > 0
Frac(n, d) ==
    LET g == GCD(IF n < 0 THEN -n ELSE n, d)
    IN  [n |-> n \div g, d |-> d \div g]

FracAdd(a, b) == Frac(a.n * b.d + b.n * a.d, a.d * b.d)
FracSub(a, b) == Frac(a.n * b.d - b.n * a.d, a.d * b.d)
FracMul(a, b) == Frac(a.n * b.n, a.d * b.d)
\* a / b for b > 0
FracDiv(a, b) == Frac(a.n * b.d, a.d * b.n)
FracLess(a, b) == a.n * b.d < b.n * a.d
FracLeq(a, b) == a.n * b.d <= b.n * a.d
\* min(a, b) and max(a, b) of Python: the first argument on a tie
FracMin(a, b) == IF FracLess(b, a) THEN b ELSE a
FracMax(a, b) == IF FracLess(a, b) THEN b ELSE a
\* int(x): truncation toward zero
FracInt(a) == IF a.n >= 0 THEN a.n \div a.d ELSE -((-a.n) \div a.d)

\* an environment variable: not set, or set to a string
Unset == [set |-> FALSE, value |-> <<>>]
EnvValue(v) == [set |-> TRUE, value |-> v]

\* os.getenv(name, default)
Getenv(environment, name, default) ==
    IF environment[name].set THEN environment[name].value ELSE default

\* _env_bool(name, default)
env_bool(environment, name, default) ==
    IF ~environment[name].set THEN default
    ELSE Lower(Strip(environment[name].value))
           \in { <<"1">>, <<"t","r","u","e">>, <<"y","e","s">>, <<"o","n">> }

DigitValue(c) == (CHOOSE i \in DOMAIN DigitChars : DigitChars[i] = c) - 1

\* the value of a string of digits
RECURSIVE DigitsValue(_)
DigitsValue(s) ==
    IF s = <<>> THEN 0
    ELSE 10 * DigitsValue(SubSeq(s, 1, Len(s) - 1)) + DigitValue(s[Len(s)])

RECURSIVE Pow10(_)
Pow10(k) == IF k = 0 THEN 1 ELSE 10 * Pow10(k - 1)

\* float(raw) on plain decimal notation (sign, digits, one optional point):
\* the value, or ValueError.  The settings of the model are written in that
\* notation or hold a letter that no float literal has; exponents, "inf" and
\* "nan" are outside it.  Values are exact, so rounding is not modelled
ParseFloat(raw) ==
    LET t        == Strip(raw)
        negative == t # <<>> /\ t[1] = "-"
        signed   == t # <<>> /\ t[1] \in {"-", "+"}
        body     == IF signed THEN Tail(t) ELSE t
        points   == {i \in DOMAIN body : body[i] = "."}
        whole    == IF points = {} THEN body
                    ELSE SubSeq(body, 1, (CHOOSE i \in points : TRUE) - 1)
        part     == IF points = {} THEN <<>>
                    ELSE SubSeq(body, (CHOOSE i \in points : TRUE) + 1, Len(body))
        numeric  == /\ Cardinality(points) <= 1
                    /\ Len(whole) + Len(part) > 0
                    /\ \A i \in DOMAIN body : body[i] \in Digits \cup {"."}
        value    == Frac(DigitsValue(whole) * Pow10(Len(part)) + DigitsValue(part),
                         Pow10(Len(part)))
    IN  IF ~numeric THEN [raised |-> TRUE, value |-> Frac(0, 1)]
        ELSE [raised |-> FALSE,
              value |-> IF negative THEN Frac(-value.n, value.d) ELSE value]

-----------------------------------------------------------------------------
(* AnonymizationService *)

\* secrets.token_hex(16): the values a session salt can take
Salts == {1, 2}

\* hashlib.sha256(...).hexdigest()[:8]: the tags a digest can be cut to.  The
\* digest is an arbitrary function of (salt, original, category): the tags a
\* salt gives are chosen when the salt is first used and kept in sha256, so the
\* same salt always gives the same tags.
Tags == { <<"a","1","b","2","c","3","d","4">>, <<"0","f","0","f","0","f","0","f">> }

HashKeys(s) ==
    UNION {{<<d[i].original, d[i].category>> : i \in DOMAIN d} : d \in {Detect(s)}}

\* the tags a salt gives to the (original, category) pairs of the text s
Hashers(s, salt) ==
    LET known == IF salt \in DOMAIN sha256 THEN sha256[salt] ELSE <<>>
        new   == HashKeys(s) \ DOMAIN known
    IN  { [k \in DOMAIN known \cup new |-> IF k \in new THEN f[k] ELSE known[k]] :
            f \in [new -> Tags] }

Digest(hasher, original, category) == hasher[<<original, category>>]

BasePlaceholder(category, hash_digest) ==
    <<"[">> \o Upper(CategoryName(category)) \o <<"_">> \o hash_digest \o <<"]">>

CounterPlaceholder(category, hash_digest, counter) ==
    <<"[">> \o Upper(CategoryName(category)) \o <<"_">> \o hash_digest
          \o <<"_">> \o DecimalStr(counter) \o <<"]">>

\* the while loop of _generate_placeholder, entered with counter = 1
RECURSIVE NextFree(_, _, _, _)
NextFree(used, category, hash_digest, counter) ==
    LET placeholder == CounterPlaceholder(category, hash_digest, counter)
    IN  IF placeholder \in used
        THEN NextFree(used, category, hash_digest, counter + 1)
        ELSE placeholder

\* _generate_placeholder without its uniqueness loop
generate_placeholder_unchecked(used, hasher, original, category) ==
    BasePlaceholder(category, Digest(hasher, original, category))

\* _generate_placeholder hashing without the session salt: the tag no longer
\* depends on the session
generate_placeholder_unsalted(used, hasher, original, category) ==
    LET hash_digest == CHOOSE tag \in Tags : TRUE
        base_placeholder == BasePlaceholder(category, hash_digest)
    IN  IF base_placeholder \in used
        THEN NextFree(used, category, hash_digest, 1)
        ELSE base_placeholder

\* _generate_placeholder: the placeholder returned (the caller adds it to used)
generate_placeholder(used, hasher, original, category) ==
    LET hash_digest == Digest(hasher, original, category)
        base_placeholder == BasePlaceholder(category, hash_digest)
    IN  IF base_placeholder \in used
        THEN NextFree(used, category, hash_digest, 1)
        ELSE base_placeholder

\* d[k] = v on an insertion-ordered dict held as a sequence of entries
DictSet(d, k, v) ==
    IF \E i \in DOMAIN d : d[i].placeholder = k
    THEN [i \in DOMAIN d |->
             IF d[i].placeholder = k THEN [placeholder |-> k, original |-> v] ELSE d[i]]
    ELSE Append(d, [placeholder |-> k, original |-> v])

DictKeys(d) == [i \in DOMAIN d |-> d[i].placeholder]

\* one pass of the inner loop body of anonymize for the detected match d
CollectOne(acc, d, placeholder) ==
    [used     |-> acc.used \cup {placeholder},
     mappings |-> DictSet(acc.mappings, placeholder, d.original),
     matches  |-> Append(acc.matches,
                     [start |-> d.start, end |-> d.end, original |-> d.original,
                      placeholder |-> placeholder, category |-> d.category]),
     by_category |-> [acc.by_category EXCEPT ![d.category] = @ + 1]]

\* the collecting loops of anonymize over the detected matches, in order
RECURSIVE CollectMatches(_, _, _, _)
CollectMatches(dets, i, hasher, acc) ==
    IF i > Len(dets) THEN acc
    ELSE CollectMatches(dets, i + 1, hasher,
             CollectOne(acc, dets[i],
                 generate_placeholder(acc.used, hasher, dets[i].original, dets[i].category)))

\* the matches left in the order they were collected
SortMatches_unsorted(matches) == matches

\* list.sort(key=..., reverse=True) and sorted(..., reverse=True) are stable:
\* equal keys keep their order.  Entries are [key, item] pairs.
RECURSIVE InsertByKeyDesc(_, _)
InsertByKeyDesc(sorted, x) ==
    IF sorted = <<>> THEN <<x>>
    ELSE IF Head(sorted).key >= x.key
         THEN <<Head(sorted)>> \o InsertByKeyDesc(Tail(sorted), x)
         ELSE <<x>> \o sorted

RECURSIVE SortDescFrom(_, _, _)
SortDescFrom(keyed, i, sorted) ==
    IF i > Len(keyed) THEN [j \in DOMAIN sorted |-> sorted[j].item]
    ELSE SortDescFrom(keyed, i + 1, InsertByKeyDesc(sorted, keyed[i]))

\* all_matches.sort(key=lambda m: m.start, reverse=True)
SortMatches(matches) ==
    SortDescFrom([i \in DOMAIN matches |-> [key |-> matches[i].start, item |-> matches[i]]],
                 1, <<>>)

\* the replacement loop of anonymize
RECURSIVE ApplyReplacements(_, _, _)
ApplyReplacements(t, matches, i) ==
    IF i > Len(matches) THEN t
    ELSE ApplyReplacements(
             Slice(t, 0, matches[i].start) \o matches[i].placeholder
                 \o Slice(t, matches[i].end, Len(t)),
             matches, i + 1)

NoStats == [total_phi_elements |-> 0,
            by_category |-> [c \in Range(PATTERNS) |-> 0]]

AnonymizeResult(s, c, sorted) ==
    [anonymized_text   |-> ApplyReplacements(s, sorted, 1),
     current_mappings  |-> c.mappings,
     used_placeholders |-> c.used,
     all_matches       |-> sorted,
     stats |-> [total_phi_elements |-> Len(sorted), by_category |-> c.by_category]]

\* anonymize(text), hasher being the digest under the freshly drawn salt
anonymize(s, hasher) ==
    CHOOSE r \in { AnonymizeResult(s, c, SortMatches(c.matches)) :
                     c \in { CollectMatches(Detect(s), 1, hasher,
                                [used |-> {}, mappings |-> <<>>, matches |-> <<>>,
                                 by_category |-> NoStats.by_category]) } } : TRUE

\* sorted(mappings.items(), key=lambda x: len(x[0]), reverse=True)
SortMappings(mappings) ==
    SortDescFrom([i \in DOMAIN mappings |->
                     [key |-> Len(mappings[i].placeholder), item |-> mappings[i]]],
                 1, <<>>)

\* the replacement loop of reidentify
RECURSIVE ReplaceAll(_, _, _)
ReplaceAll(t, sorted_mappings, i) ==
    IF i > Len(sorted_mappings) THEN t
    ELSE ReplaceAll(Replace(t, sorted_mappings[i].placeholder, sorted_mappings[i].original),
                    sorted_mappings, i + 1)

MissingPlaceholders(t, mappings) ==
    SelectSeq(DictKeys(mappings), LAMBDA placeholder : ~Contains(t, placeholder))

\* reidentify raising only when every placeholder is missing
reidentify_all_missing(t, mappings, strict) ==
    IF /\ mappings # <<>>
       /\ Len(MissingPlaceholders(t, mappings)) = Len(mappings)
       /\ strict
    THEN [raised |-> TRUE, text |-> <<>>]
    ELSE [raised |-> FALSE, text |-> ReplaceAll(t, SortMappings(mappings), 1)]

\* reidentify(text, mappings): raised (ValueError), or the restored text
reidentify(t, mappings, strict) ==
    IF MissingPlaceholders(t, mappings) # <<>> /\ strict
    THEN [raised |-> TRUE, text |-> <<>>]
    ELSE [raised |-> FALSE, text |-> ReplaceAll(t, SortMappings(mappings), 1)]

NoResult == [raised |-> FALSE, text |-> <<>>]
NoSession == [held |-> FALSE, salt |-> 0, all_matches |-> <<>>, stats |-> NoStats]

-----------------------------------------------------------------------------
(* _require_api_key and _enforce_rate_limit (securedoc.py) *)

\* the environment variables the router reads, each at call time
EnvNames == {"SECUREDOC_REQUIRE_API_KEY", "SECUREDOC_API_KEY",
             "SECUREDOC_RATE_LIMIT_ENABLED", "SECUREDOC_RATE_LIMIT_RPS",
             "SECUREDOC_RATE_LIMIT_BURST"}

\* the X-API-Key header is absent (None), or a string
NoHeader == [set |-> FALSE, value |-> <<>>]
Header(v) == [set |-> TRUE, value |-> v]

AuthRaised(status_code, detail) ==
    [raised |-> TRUE, status_code |-> status_code, detail |-> detail, api_key |-> <<>>]
AuthPassed(api_key) ==
    [raised |-> FALSE, status_code |-> 0, detail |-> "", api_key |-> api_key]

\* _require_api_key comparing the header as sent with the variable as set
require_api_key_unstripped(environment, x_api_key) ==
    IF ~env_bool(environment, "SECUREDOC_REQUIRE_API_KEY", TRUE) THEN AuthPassed(<<>>)
    ELSE IF Getenv(environment, "SECUREDOC_API_KEY", <<>>) = <<>>
    THEN AuthRaised(503, "Auth misconfigured")
    ELSE IF \/ ~x_api_key.set
            \/ x_api_key.value = <<>>
            \/ x_api_key.value # Getenv(environment, "SECUREDOC_API_KEY", <<>>)
    THEN AuthRaised(401, "Unauthorized")
    ELSE AuthPassed(x_api_key.value)

\* _require_api_key letting every request through when no key is configured
require_api_key_fail_open(environment, x_api_key) ==
    IF ~env_bool(environment, "SECUREDOC_REQUIRE_API_KEY", TRUE) THEN AuthPassed(<<>>)
    ELSE IF Strip(Getenv(environment, "SECUREDOC_API_KEY", <<>>)) = <<>>
    THEN AuthPassed(<<>>)
    ELSE IF \/ ~x_api_key.set
            \/ x_api_key.value = <<>>
            \/ Strip(x_api_key.value) # Strip(Getenv(environment, "SECUREDOC_API_KEY", <<>>))
    THEN AuthRaised(401, "Unauthorized")
    ELSE AuthPassed(Strip(x_api_key.value))

\* _require_api_key(x_api_key): HTTPException 503 or 401, or the caller's key
require_api_key(environment, x_api_key) ==
    IF ~env_bool(environment, "SECUREDOC_REQUIRE_API_KEY", TRUE) THEN AuthPassed(<<>>)
    ELSE IF Strip(Getenv(environment, "SECUREDOC_API_KEY", <<>>)) = <<>>
    THEN AuthRaised(503, "Auth misconfigured")
    ELSE IF \/ ~x_api_key.set
            \/ x_api_key.value = <<>>
            \/ Strip(x_api_key.value) # Strip(Getenv(environment, "SECUREDOC_API_KEY", <<>>))
    THEN AuthRaised(401, "Unauthorized")
    ELSE AuthPassed(Strip(x_api_key.value))

\* the bucket key: the API key when there is one, else the digest of the
\* client address (the digest stands for the address it is made from)
IdentityOf(api_key, client_host) ==
    IF api_key # <<>> THEN [kind |-> "key", of |-> api_key]
    ELSE [kind |-> "ip", of |-> IF client_host = <<>> THEN <<"unknown">> ELSE client_host]

Admitted(state) ==
    [raised |-> FALSE, status_code |-> 0, detail |-> "", retry_after |-> 0,
     state |-> state]
Refused(status_code, detail, retry_after, state) ==
    [raised |-> TRUE, status_code |-> status_code, detail |-> detail,
     retry_after |-> retry_after, state |-> state]

\* the refill without the cap at burst
Refilled_uncapped(rate_per_sec, burst, state, identity, now) ==
    LET known   == identity \in DOMAIN state
        tokens0 == IF known THEN state[identity].tokens ELSE burst
        last    == IF known THEN state[identity].last ELSE now
        elapsed == FracMax(Frac(0, 1), FracSub(now, last))
    IN  FracAdd(tokens0, FracMul(elapsed, rate_per_sec))

\* _rate_state.get(identity, (burst, now)), then the refill
Refilled(rate_per_sec, burst, state, identity, now) ==
    LET known   == identity \in DOMAIN state
        tokens0 == IF known THEN state[identity].tokens ELSE burst
        last    == IF known THEN state[identity].last ELSE now
        elapsed == FracMax(Frac(0, 1), FracSub(now, last))
    IN  FracMin(burst, FracAdd(tokens0, FracMul(elapsed, rate_per_sec)))

\* the Retry-After of a refusal
RetryAfter(tokens, rate_per_sec) ==
    Max(1, FracInt(FracDiv(FracSub(Frac(1, 1), tokens), rate_per_sec)))

\* the token bucket admitting without taking a token
TokenBucket_free(rate_per_sec, burst, state, identity, now) ==
    LET tokens == Refilled(rate_per_sec, burst, state, identity, now)
    IN  IF FracLess(tokens, Frac(1, 1))
        THEN Refused(429, "Too Many Requests", RetryAfter(tokens, rate_per_sec), state)
        ELSE Admitted([i \in DOMAIN state \cup {identity} |->
                         IF i = identity
                         THEN [tokens |-> tokens, last |-> now]
                         ELSE state[i]])

\* the token bucket storing the refilled tokens and the time on a refusal
TokenBucket_refusal_stored(rate_per_sec, burst, state, identity, now) ==
    LET tokens == Refilled(rate_per_sec, burst, state, identity, now)
    IN  IF FracLess(tokens, Frac(1, 1))
        THEN Refused(429, "Too Many Requests", RetryAfter(tokens, rate_per_sec),
                     [i \in DOMAIN state \cup {identity} |->
                         IF i = identity
                         THEN [tokens |-> tokens, last |-> now]
                         ELSE state[i]])
        ELSE Admitted([i \in DOMAIN state \cup {identity} |->
                         IF i = identity
                         THEN [tokens |-> FracSub(tokens, Frac(1, 1)), last |-> now]
                         ELSE state[i]])

\* the token bucket refusing when exactly one token is available
TokenBucket_strict(rate_per_sec, burst, state, identity, now) ==
    LET tokens == Refilled(rate_per_sec, burst, state, identity, now)
    IN  IF FracLeq(tokens, Frac(1, 1))
        THEN Refused(429, "Too Many Requests", RetryAfter(tokens, rate_per_sec), state)
        ELSE Admitted([i \in DOMAIN state \cup {identity} |->
                         IF i = identity
                         THEN [tokens |-> FracSub(tokens, Frac(1, 1)), last |-> now]
                         ELSE state[i]])

\* lines 88-103: the token bucket of one identity
TokenBucket(rate_per_sec, burst, state, identity, now) ==
    LET tokens == Refilled(rate_per_sec, burst, state, identity, now)
    IN  IF FracLess(tokens, Frac(1, 1))
        THEN Refused(429, "Too Many Requests", RetryAfter(tokens, rate_per_sec), state)
        ELSE Admitted([i \in DOMAIN state \cup {identity} |->
                         IF i = identity
                         THEN [tokens |-> FracSub(tokens, Frac(1, 1)), last |-> now]
                         ELSE state[i]])

\* _enforce_rate_limit letting the call pass when a setting is not a number
EnforceRateLimit_bypass(environment, state, identity, now) ==
    IF ~env_bool(environment, "SECUREDOC_RATE_LIMIT_ENABLED", TRUE) THEN Admitted(state)
    ELSE LET rate_per_sec ==
               ParseFloat(Getenv(environment, "SECUREDOC_RATE_LIMIT_RPS", <<"2">>))
             burst ==
               ParseFloat(Getenv(environment, "SECUREDOC_RATE_LIMIT_BURST", <<"5">>))
         IN  IF rate_per_sec.raised \/ burst.raised
             THEN Admitted(state)
             ELSE IF FracLeq(rate_per_sec.value, Frac(0, 1))
                     \/ FracLeq(burst.value, Frac(0, 1))
             THEN Admitted(state)
             ELSE TokenBucket(rate_per_sec.value, burst.value, state, identity, now)

\* _enforce_rate_limit(request, api_key)
EnforceRateLimit(environment, state, identity, now) ==
    IF ~env_bool(environment, "SECUREDOC_RATE_LIMIT_ENABLED", TRUE) THEN Admitted(state)
    ELSE LET rate_per_sec ==
               ParseFloat(Getenv(environment, "SECUREDOC_RATE_LIMIT_RPS", <<"2">>))
             burst ==
               ParseFloat(Getenv(environment, "SECUREDOC_RATE_LIMIT_BURST", <<"5">>))
         IN  IF rate_per_sec.raised \/ burst.raised
             THEN Refused(503, "Rate limit misconfigured", 0, state)
             ELSE IF FracLeq(rate_per_sec.value, Frac(0, 1))
                     \/ FracLeq(burst.value, Frac(0, 1))
             THEN Admitted(state)
             ELSE TokenBucket(rate_per_sec.value, burst.value, state, identity, now)

\* the request as it reaches the endpoint: the X-API-Key header, the
\* practice_id of the body and request.client.host (text and task are
\* variables of their own)
NoRequest == [x_api_key |-> NoHeader, practice_id |-> <<>>, client_host |-> <<>>]

\* what the checks in front of the handler's work decided for the last
\* request: the outcome of _require_api_key, whether the body passed
\* validation, whether the handler body was entered, and for the rate
\* limiter the identity, the clock, _rate_state before the call and the outcome
NoGate == [auth |-> AuthPassed(<<>>), valid |-> TRUE, entered |-> FALSE,
           identity |-> IdentityOf(<<>>, <<>>), now |-> Frac(0, 1),
           before |-> <<>>, limit |-> Admitted(<<>>),
           refusal |-> [status_code |-> 0, detail |-> "", retry_after |-> 0]]

\* no variable is set
NoEnviron == [name \in EnvNames |-> Unset]

\* settings.llm_max_retries and llm_client._circuit_breaker_threshold
llm_max_retries == 3
circuit_breaker_threshold == 5

\* settings.llm_retry_delay, in seconds
llm_retry_delay == 1

RETRYABLE_STATUS_CODES == {408, 429, 500, 502, 503, 504}

\* no call of generate has been made: the network attempts of the call, one
\* entry for each attempt that failed (the kind of failure and the seconds
\* slept after it), how the call ended, the text it returned, the failure
\* count when it began, and the number of calls before it that failed
\* upstream in a row
NoCall == [posts |-> 0, trace |-> <<>>, outcome |-> "none", result |-> <<>>,
           before |-> 0, streak |-> 0]

NoPayload == [sent |-> FALSE, system |-> <<>>, user |-> <<>>]
NoExit == [status |-> 0, detail |-> "", output_text |-> <<>>, retry_after |-> 0]

\* no request has arrived, whatever the environment holds
HandlerIdle ==
    /\ task = <<>>
    /\ pc = "idle"
    /\ attempt = 0
    /\ payload = NoPayload
    /\ exit = NoExit
    /\ rate_state = <<>>
    /\ monotonic = Frac(0, 1)
    /\ llm_api_key = ""
    /\ circuit_breaker_failures = 0
    /\ requests = 0
    /\ request = NoRequest
    /\ gate = NoGate
    /\ attempts = <<>>
    /\ max_retries = llm_max_retries
    /\ call = NoCall
    /\ inflight = <<>>

DocIdle ==
    /\ HandlerIdle
    /\ environ = NoEnviron

-----------------------------------------------------------------------------
(* stripe_webhook (billing.py) *)

\* MAX_PROCESSED_EVENTS, scaled down from 1000 so that eviction is reached
MAX_PROCESSED_EVENTS == 2

\* the replay window in seconds
ReplayTolerance == 300

EventIds == {"evt_a", "evt_b", "evt_c"}
EventTypes == {"checkout.session.completed", "other"}

\* what stripe.Webhook.construct_event can return for a verified payload: the
\* 'created' field may be absent, and a checkout event may lack data.object
Events(now) ==
    [id : EventIds, type : EventTypes, has_created : {TRUE},
     created : {now - 301, now - 300, now, now + 300, now + 301}, data_ok : {TRUE}]
    \cup [id : EventIds, type : {"other"}, has_created : {FALSE},
          created : {0}, data_ok : {TRUE}]
    \cup [id : EventIds, type : {"checkout.session.completed"}, has_created : {TRUE},
          created : {now}, data_ok : {FALSE}]

NoEvent == [id |-> "", type |-> "", has_created |-> FALSE, created |-> 0,
            data_ok |-> TRUE]

\* the Stripe-Signature header: absent, not matching the payload, matching
Signatures == {"", "bad", "good"}

Abs(x) == IF x < 0 THEN -x ELSE x

\* event.get('created', 0)
EventCreated(event) == IF event.has_created THEN event.created ELSE 0

\* the lookup seeing the newest entry only
LedgerIds_newest(ledger) ==
    IF ledger = <<>> THEN {} ELSE {ledger[Len(ledger)].event_id}

\* the keys of processed_events
LedgerIds(ledger) == {ledger[i].event_id : i \in DOMAIN ledger}

\* lines 105-110 with popitem() called without last=False
LedgerInsert_pop_newest(ledger, event_id, now) ==
    LET added == Append(ledger, [event_id |-> event_id, processed_at |-> now])
    IN  IF Len(added) > MAX_PROCESSED_EVENTS THEN SubSeq(added, 1, Len(added) - 1)
        ELSE added

\* lines 105-110 evicting as soon as the ledger is full
LedgerInsert_evict_early(ledger, event_id, now) ==
    LET added == Append(ledger, [event_id |-> event_id, processed_at |-> now])
    IN  IF Len(added) >= MAX_PROCESSED_EVENTS THEN Tail(added) ELSE added

\* processed_events[event_id] = current_timestamp, then popitem(last=False)
\* when the ledger is over capacity (event_id is not in the ledger)
LedgerInsert(ledger, event_id, now) ==
    LET added == Append(ledger, [event_id |-> event_id, processed_at |-> now])
    IN  IF Len(added) > MAX_PROCESSED_EVENTS THEN Tail(added) ELSE added

\* the replay check with >= in place of >
OutsideTolerance_inclusive(time_difference) == time_difference >= ReplayTolerance

\* time_difference > 300
OutsideTolerance(time_difference) == time_difference > ReplayTolerance

\* the steps of the handler, in the order of the code
HandlerSteps == <<"signature_header", "webhook_secret", "construct_event",
                  "replay_check", "idempotency_check", "process_event",
                  "mark_processed">>

\* raise HTTPException(status, detail) leaving the handler at step reached
Rejected(status, detail, ledger, reached) ==
    [status |-> status, detail |-> detail, message |-> "", ledger |-> ledger,
     recorded |-> FALSE, reached |-> reached]

\* the except clauses of the try block: SignatureVerificationError, then
\* Exception, which an HTTPException raised in the block also is
ExceptClauses(exception, ledger, reached) ==
    IF exception.type = "SignatureVerificationError"
    THEN Rejected(400, "Invalid signature", ledger, reached)
    ELSE Rejected(400, "Webhook processing failed", ledger, reached)

\* the body of the try block with the identifier marked as processed before
\* the event is processed
ProcessVerified_mark_first(event, now, ledger) ==
    IF OutsideTolerance(Abs(now - EventCreated(event)))
    THEN ExceptClauses([type |-> "HTTPException", status_code |-> 400,
                        detail |-> "Event timestamp outside tolerance"],
                       ledger, "replay_check")
    ELSE IF event.id \in LedgerIds(ledger)
    THEN [status |-> 200, detail |-> "", message |-> "Event already processed",
          ledger |-> ledger, recorded |-> FALSE, reached |-> "idempotency_check"]
    ELSE IF event.type = "checkout.session.completed" /\ ~event.data_ok
    THEN ExceptClauses([type |-> "KeyError", status_code |-> 0, detail |-> "object"],
                       LedgerInsert(ledger, event.id, now), "process_event")
    ELSE [status |-> 200, detail |-> "", message |-> "",
          ledger |-> LedgerInsert(ledger, event.id, now), recorded |-> TRUE,
          reached |-> "mark_processed"]

\* the body of the try block with the ledger looked up before the replay
\* check
ProcessVerified_lookup_first(event, now, ledger) ==
    IF event.id \in LedgerIds(ledger)
    THEN [status |-> 200, detail |-> "", message |-> "Event already processed",
          ledger |-> ledger, recorded |-> FALSE, reached |-> "idempotency_check"]
    ELSE IF OutsideTolerance(Abs(now - EventCreated(event)))
    THEN ExceptClauses([type |-> "HTTPException", status_code |-> 400,
                        detail |-> "Event timestamp outside tolerance"],
                       ledger, "replay_check")
    ELSE IF event.type = "checkout.session.completed" /\ ~event.data_ok
    THEN ExceptClauses([type |-> "KeyError", status_code |-> 0, detail |-> "object"],
                       ledger, "process_event")
    ELSE [status |-> 200, detail |-> "", message |-> "",
          ledger |-> LedgerInsert(ledger, event.id, now), recorded |-> TRUE,
          reached |-> "mark_processed"]

\* the body of the try block for a verified event
ProcessVerified(event, now, ledger) ==
    IF OutsideTolerance(Abs(now - EventCreated(event)))
    THEN ExceptClauses([type |-> "HTTPException", status_code |-> 400,
                        detail |-> "Event timestamp outside tolerance"],
                       ledger, "replay_check")
    ELSE IF event.id \in LedgerIds(ledger)
    THEN [status |-> 200, detail |-> "", message |-> "Event already processed",
          ledger |-> ledger, recorded |-> FALSE, reached |-> "idempotency_check"]
    ELSE IF event.type = "checkout.session.completed" /\ ~event.data_ok
    THEN ExceptClauses([type |-> "KeyError", status_code |-> 0, detail |-> "object"],
                       ledger, "process_event")
    ELSE [status |-> 200, detail |-> "", message |-> "",
          ledger |-> LedgerInsert(ledger, event.id, now), recorded |-> TRUE,
          reached |-> "mark_processed"]

\* the handler with the two gates in the other order
WebhookOutcome_secret_first(signature, secret, event, now, ledger) ==
    IF secret = ""
    THEN Rejected(500, "Webhook secret not configured", ledger, "webhook_secret")
    ELSE IF signature = ""
    THEN Rejected(400, "Missing Stripe signature", ledger, "signature_header")
    ELSE IF signature # "good"
    THEN ExceptClauses([type |-> "SignatureVerificationError", status_code |-> 0,
                        detail |-> ""], ledger, "construct_event")
    ELSE ProcessVerified(event, now, ledger)

\* the handler: the response and the ledger it leaves
WebhookOutcome(signature, secret, event, now, ledger) ==
    IF signature = ""
    THEN Rejected(400, "Missing Stripe signature", ledger, "signature_header")
    ELSE IF secret = ""
    THEN Rejected(500, "Webhook secret not configured", ledger, "webhook_secret")
    ELSE IF signature # "good"
    THEN ExceptClauses([type |-> "SignatureVerificationError", status_code |-> 0,
                        detail |-> ""], ledger, "construct_event")
    ELSE ProcessVerified(event, now, ledger)

NoDelivery == [signature |-> "", event |-> NoEvent, now |-> 0, ledger_before |-> <<>>,
               seen_before |-> FALSE, status |-> 0, detail |-> "", message |-> "",
               recorded |-> FALSE, reached |-> ""]

HookIdle ==
    /\ stripe_webhook_secret = ""
    /\ processed_events = <<>>
    /\ wall_clock = 0
    /\ delivery = NoDelivery
    /\ recorded_log = <<>>
    /\ delivered_ok = {}
    /\ deliveries = 0

AnonIdle ==
    /\ text = <<>>
    /\ sha256 = <<>>
    /\ session_salt = 0
    /\ fail_on_missing_placeholders = FALSE
    /\ current_mappings = <<>>
    /\ used_placeholders = {}
    /\ anonymization_stats = NoStats
    /\ all_matches = <<>>
    /\ anonymized_text = <<>>
    /\ response = <<>>
    /\ reidentified = NoResult
    /\ phase = "new"
    /\ prev_session = NoSession

\* the clock of a host near the epoch, and of one far from it
InitWebhook ==
    /\ stripe_webhook_secret \in {"", "whsec_test"}
    /\ processed_events = <<>>
    /\ wall_clock \in {ReplayTolerance, 1000}
    /\ delivery = NoDelivery
    /\ recorded_log = <<>>
    /\ delivered_ok = {}
    /\ deliveries = 0
    /\ AnonIdle
    /\ DocIdle

\* one delivery handled from the first line of stripe_webhook to its response
StripeWebhook ==
    /\ deliveries < MaxDeliveries
    /\ \E signature \in Signatures :
       \E event \in (IF signature = "good" /\ stripe_webhook_secret # ""
                     THEN Events(wall_clock) ELSE {NoEvent}) :
       \E out \in {WebhookOutcome(signature, stripe_webhook_secret, event,
                                  wall_clock, processed_events)} :
         /\ processed_events' = out.ledger
         /\ recorded_log' = IF out.recorded
                            THEN Append(recorded_log,
                                        [event_id |-> event.id, processed_at |-> wall_clock])
                            ELSE recorded_log
         /\ delivery' = [signature |-> signature, event |-> event, now |-> wall_clock,
                         ledger_before |-> processed_events,
                         seen_before |-> event.id \in delivered_ok,
                         status |-> out.status, detail |-> out.detail,
                         message |-> out.message, recorded |-> out.recorded,
                         reached |-> out.reached]
         /\ delivered_ok' =
              IF /\ signature = "good" /\ stripe_webhook_secret # ""
                 /\ Abs(wall_clock - EventCreated(event)) <= ReplayTolerance
              THEN delivered_ok \cup {event.id} ELSE delivered_ok
    /\ deliveries' = deliveries + 1
    /\ UNCHANGED <<stripe_webhook_secret, wall_clock, anonVars, docVars>>

\* time passes between deliveries
Tick ==
    /\ wall_clock < 1000 + MaxTicks
    /\ wall_clock # ReplayTolerance + MaxTicks
    /\ wall_clock' = wall_clock + 1
    /\ UNCHANGED <<stripe_webhook_secret, processed_events, delivery, recorded_log,
                   delivered_ok, deliveries, anonVars, docVars>>

NextWebhook == StripeWebhook \/ Tick
SpecWebhook == InitWebhook /\ [][NextWebhook]_vars

-----------------------------------------------------------------------------
(* The service exercised as the unit tests do: anonymize, reidentify on a   *)
(* downstream text, clear_session, and again                               *)

\* the downstream texts handed to reidentify: the masked text untouched, the
\* masked text with one placeholder removed, the masked text twice
Responses(a, mappings) ==
    {a, a \o <<" ">> \o a}
      \cup {Replace(a, mappings[i].placeholder, <<>>) : i \in DOMAIN mappings}

InitAnon ==
    /\ text \in Texts
    /\ sha256 = <<>>
    /\ session_salt \in Salts
    /\ fail_on_missing_placeholders \in BOOLEAN
    /\ current_mappings = <<>>
    /\ used_placeholders = {}
    /\ anonymization_stats = NoStats
    /\ all_matches = <<>>
    /\ anonymized_text = <<>>
    /\ response = <<>>
    /\ reidentified = NoResult
    /\ phase = "new"
    /\ prev_session = NoSession
    /\ HookIdle
    /\ DocIdle

\* service.anonymize(text), called in one of the phases given
AnonymizeIn(phases) ==
    /\ phase \in phases
    /\ \E salt \in Salts : \E hasher \in Hashers(text, salt) :
       \E r \in {anonymize(text, hasher)} :
         /\ session_salt' = salt
         /\ sha256' = [x \in DOMAIN sha256 \cup {salt} |->
                          IF x = salt THEN hasher ELSE sha256[x]]
         /\ current_mappings' = r.current_mappings
         /\ used_placeholders' = r.used_placeholders
         /\ anonymization_stats' = r.stats
         /\ all_matches' = r.all_matches
         /\ anonymized_text' = r.anonymized_text
    /\ response' = <<>>
    /\ reidentified' = NoResult
    /\ phase' = "anonymized"
    /\ UNCHANGED <<text, fail_on_missing_placeholders, prev_session, hookVars, docVars>>

\* service.reidentify(downstream, mappings)
Reidentify ==
    /\ phase = "anonymized"
    /\ \E t \in Responses(anonymized_text, current_mappings) :
         /\ response' = t
         /\ reidentified' = reidentify(t, current_mappings, fail_on_missing_placeholders)
    /\ phase' = "reidentified"
    /\ UNCHANGED <<text, sha256, session_salt, current_mappings, used_placeholders,
                   anonymization_stats, fail_on_missing_placeholders, all_matches,
                   anonymized_text, prev_session, hookVars, docVars>>

\* service.clear_session(); prev_session remembers the session that ends here
ClearSession ==
    /\ phase \in {"anonymized", "reidentified"}
    /\ current_mappings' = <<>>
    /\ used_placeholders' = {}
    /\ session_salt' \in Salts
    /\ prev_session' = [held |-> TRUE, salt |-> session_salt,
                         all_matches |-> all_matches, stats |-> anonymization_stats]
    /\ phase' = "cleared"
    /\ UNCHANGED <<text, sha256, anonymization_stats, fail_on_missing_placeholders,
                   all_matches, anonymized_text, response, reidentified, hookVars, docVars>>

\* one cycle of one service: anonymize, reidentify, clear_session
AnonymizeOnce == AnonymizeIn({"new"})
NextAnon == AnonymizeOnce \/ Reidentify \/ ClearSession
SpecAnon == InitAnon /\ [][NextAnon]_vars

\* two sessions on the same input: anonymize, clear_session, anonymize
AnonymizeAgain == AnonymizeIn({"new", "cleared"})
ClearAnonymized == phase = "anonymized" /\ ~prev_session.held /\ ClearSession
NextSessions == AnonymizeAgain \/ ClearAnonymized
SpecSessions == InitAnon /\ [][NextSessions]_vars

-----------------------------------------------------------------------------
(* generate_securedoc (securedoc.py) with LLMClient.generate (llm_client.py) *)

\* request.text: a text with a detected element, and one without
DocTexts == { <<"A","1","2">>, <<"c","D","N","A">> }

\* request.text: seven diagnosis codes and then a genetic term. Masked, every
\* code becomes the same placeholder of 28 characters, so the placeholder of
\* the genetic term starts after character 200 of the masked text
Codes == <<"A","1","2"," ">>
LongDocText == Codes \o Codes \o Codes \o Codes \o Codes \o Codes \o Codes
                 \o <<"D","N","A">>

\* request.task: "summary", and a task that names a diagnosis code
Tasks == { <<"s","u","m","m","a","r","y">>, <<"c","o","d","e"," ","A","1","2">> }

\* os.environ from the values of the five variables
Environ(require, api_key, enabled, rps, burst) ==
    [name \in EnvNames |->
       CASE name = "SECUREDOC_REQUIRE_API_KEY"    -> require
         [] name = "SECUREDOC_API_KEY"            -> api_key
         [] name = "SECUREDOC_RATE_LIMIT_ENABLED" -> enabled
         [] name = "SECUREDOC_RATE_LIMIT_RPS"     -> rps
         [] name = "SECUREDOC_RATE_LIMIT_BURST"   -> burst]

\* the environment of a run: authentication required (the default) with a
\* key configured, with a key of white space, with an empty key or with none;
\* the limiter enabled (the default) with one token per second and a burst of
\* one
DocEnvirons ==
    { Environ(Unset, api_key, Unset, EnvValue(<<"1">>), EnvValue(<<"1">>)) :
        api_key \in { EnvValue(<<"k","1">>), EnvValue(<<" ">>), EnvValue(<<>>), Unset } }

\* a request: the X-API-Key header, the fields of the body, the client host
DocRequest(x_api_key, practice_id, k, t) ==
    [head |-> [x_api_key |-> x_api_key, practice_id |-> practice_id,
               client_host |-> <<"h">>],
     task |-> k, text |-> t]

\* the requests of a run. With the key: every text with every task, a body
\* with empty practice_id and text, and a body whose text holds a form feed.
\* Without the X-API-Key header: a body that passes validation and one that
\* does not
DocRequests ==
    { DocRequest(Header(<<"k","1">>), <<"p","1">>, k, t) : k \in Tasks, t \in DocTexts }
    \cup { DocRequest(x, <<>>, <<"s","u","m","m","a","r","y">>, <<>>) :
             x \in {NoHeader, Header(<<"k","1">>)} }
    \cup { DocRequest(Header(<<"k","1">>), <<"p","1">>,
                      <<"s","u","m","m","a","r","y">>, <<"A","\f">>),
           DocRequest(NoHeader, <<"p","1">>,
                      <<"s","u","m","m","a","r","y">>, <<"A","1","2">>) }

\* the requests of a run in degraded mode: a short text and the long text, both
\* with the key and a body that passes validation
DegradedRequests ==
    { DocRequest(Header(<<"k","1">>), <<"p","1">>, <<"s","u","m","m","a","r","y">>, t) :
        t \in {<<"A","1","2">>, LongDocText} }

\* SecureDocRequest (schemas.py): the length limits of the three fields and
\* validate_text; of the characters below 32 the model has tab, line feed,
\* carriage return (allowed) and form feed (not allowed)
ValidRequest(practice_id, k, t) ==
    /\ Len(practice_id) >= 1 /\ Len(practice_id) <= 100
    /\ Len(k) >= 1 /\ Len(k) <= 100
    /\ Len(t) >= 1 /\ Len(t) <= 50000
    /\ \A i \in 1..Len(t) : t[i] # "\f"

NoRefusal == [status_code |-> 0, detail |-> "", retry_after |-> 0]

\* the checks of a request in the order they are decided, with the limiter
\* asked before the credential and the body are looked at
Admission_limit_first(environment, head, k, t, state, now) ==
    LET auth     == require_api_key(environment, head.x_api_key)
        valid    == ValidRequest(head.practice_id, k, t)
        identity == IdentityOf(IF auth.raised THEN <<>> ELSE auth.api_key,
                               head.client_host)
        limit    == EnforceRateLimit(environment, state, identity, now)
    IN  [auth |-> auth, valid |-> valid, entered |-> TRUE,
         identity |-> identity, now |-> now, before |-> state, limit |-> limit,
         refusal |->
           IF limit.raised
           THEN [status_code |-> limit.status_code, detail |-> limit.detail,
                 retry_after |-> limit.retry_after]
           ELSE IF auth.raised
           THEN [status_code |-> auth.status_code, detail |-> auth.detail,
                 retry_after |-> 0]
           ELSE IF ~valid
           THEN [status_code |-> 422, detail |-> "Unprocessable Entity",
                 retry_after |-> 0]
           ELSE NoRefusal]

\* the checks of a request in the order they are decided: the Security
\* dependency _require_api_key, the validation of the body, and in the handler
\* body _enforce_rate_limit(http_request, _auth)
Admission(environment, head, k, t, state, now) ==
    LET auth     == require_api_key(environment, head.x_api_key)
        valid    == ValidRequest(head.practice_id, k, t)
        entered  == ~auth.raised /\ valid
        identity == IdentityOf(auth.api_key, head.client_host)
        limit    == IF entered
                    THEN EnforceRateLimit(environment, state, identity, now)
                    ELSE Admitted(state)
    IN  [auth |-> auth, valid |-> valid, entered |-> entered,
         identity |-> identity, now |-> now, before |-> state, limit |-> limit,
         refusal |->
           IF auth.raised
           THEN [status_code |-> auth.status_code, detail |-> auth.detail,
                 retry_after |-> 0]
           ELSE IF ~valid
           THEN [status_code |-> 422, detail |-> "Unprocessable Entity",
                 retry_after |-> 0]
           ELSE IF limit.raised
           THEN [status_code |-> limit.status_code, detail |-> limit.detail,
                 retry_after |-> limit.retry_after]
           ELSE NoRefusal]

SystemPrefix ==
    <<"Y","o","u"," ","a","r","e"," ","a"," ","m","e","d","i","c","a","l",
      " ","a","s","s","i","s","t","a","n","t","."," ","T","a","s","k",":",
      " ">>

\* the JSON body of _make_request: the system and the user message
Payload(prompt, k) ==
    [sent |-> TRUE, system |-> SystemPrefix \o k, user |-> prompt]

MockHead ==
    <<"[","M","o","c","k"," ","L","L","M"," ","R","e","s","p","o","n","s",
      "e"," ","f","o","r"," ","t","a","s","k",":"," ">>
MockMiddle ==
    <<"]","\n","\n","A","n","a","l","y","s","i","s"," ","o","f"," ","a","n",
      "o","n","y","m","i","z","e","d"," ","t","e","x","t",":","\n">>
MockTail ==
    <<".",".",".","\n","\n","S","u","m","m","a","r","y",":"," ","T","h","e",
      " ","a","n","o","n","y","m","i","z","e","d"," ","d","a","t","a"," ",
      "s","h","o","w","s"," ","c","l","i","n","i","c","a","l"," ","i","n",
      "f","o","r","m","a","t","i","o","n"," ","w","i","t","h"," ","p","r",
      "o","t","e","c","t","e","d"," ","P","H","I",".">>

\* _generate_mock_response(prompt, task)
generate_mock_response(prompt, k) ==
    MockHead \o k \o MockMiddle \o Slice(prompt, 0, 200) \o MockTail

\* what one _make_request can end with: an HTTP status (200 with the generated
\* text), a timeout, or another exception
Replies(prompt, mappings) ==
    [kind : {"status"}, status_code : {200}, content : Responses(prompt, mappings)]
    \cup [kind : {"status"}, status_code : {404, 503}, content : {<<>>}]
    \cup [kind : {"timeout", "error"}, status_code : {0}, content : {<<>>}]

\* the check in front of the retry loop: the circuit breaker is open
BreakerOpen_late(failures) == failures > circuit_breaker_threshold
BreakerOpen(failures) == failures >= circuit_breaker_threshold

\* generate returns the mock response without a request upstream
UsesFallback(api_key, failures) == api_key = "" \/ BreakerOpen(failures)

RECURSIVE Pow2(_)
Pow2(k) == IF k = 0 THEN 1 ELSE 2 * Pow2(k - 1)

\* the seconds slept after a retryable failure of attempt n
BackoffDelay_fixed(n) == llm_retry_delay
BackoffDelay(n) == llm_retry_delay * Pow2(n)

\* what one attempt leaves: how the loop goes on, the circuit breaker count,
\* the kind of failure and the seconds slept after it
Outcome(next, failures, failure, delay) ==
    [next |-> next, failures |-> failures, failure |-> failure, delay |-> delay]

\* the retry loop making one attempt more than settings.llm_max_retries
AttemptOutcome_one_more(reply, n, failures, retries) ==
    IF reply.kind = "status" /\ reply.status_code = 200
    THEN Outcome("return", 0, "none", 0)
    ELSE IF reply.kind = "status" /\ reply.status_code \notin RETRYABLE_STATUS_CODES
    THEN Outcome("raise", failures + 1, "nonretryable", 0)
    ELSE IF reply.kind \in {"status", "timeout"}
    THEN IF n < retries
         THEN Outcome("retry", failures, "retryable", BackoffDelay(n))
         ELSE Outcome("raise", failures + 1, "retryable", 0)
    ELSE Outcome("raise", failures + 1, "nonretryable", 0)

\* the retry loop retrying after every HTTP status but 200
AttemptOutcome_retry_all(reply, n, failures, retries) ==
    IF reply.kind = "status" /\ reply.status_code = 200
    THEN Outcome("return", 0, "none", 0)
    ELSE IF reply.kind \in {"status", "timeout"}
    THEN IF n < retries - 1
         THEN Outcome("retry", failures,
                      IF reply.kind = "status"
                         /\ reply.status_code \notin RETRYABLE_STATUS_CODES
                      THEN "nonretryable" ELSE "retryable",
                      BackoffDelay(n))
         ELSE Outcome("raise", failures + 1,
                      IF reply.kind = "status"
                         /\ reply.status_code \notin RETRYABLE_STATUS_CODES
                      THEN "nonretryable" ELSE "retryable", 0)
    ELSE Outcome("raise", failures + 1, "nonretryable", 0)

\* one iteration of the retry loop of generate, attempt n of retries: return
\* the text, sleep and retry, or raise; with the circuit breaker count it
\* leaves.  A failure is retryable when it is a timeout or a status of
\* RETRYABLE_STATUS_CODES
AttemptOutcome(reply, n, failures, retries) ==
    IF reply.kind = "status" /\ reply.status_code = 200
    THEN Outcome("return", 0, "none", 0)
    ELSE IF reply.kind = "status" /\ reply.status_code \notin RETRYABLE_STATUS_CODES
    THEN Outcome("raise", failures + 1, "nonretryable", 0)
    ELSE IF reply.kind \in {"status", "timeout"}
    THEN IF n < retries - 1
         THEN Outcome("retry", failures, "retryable", BackoffDelay(n))
         ELSE Outcome("raise", failures + 1, "retryable", 0)
    ELSE Outcome("raise", failures + 1, "nonretryable", 0)

\* what the handler leaves behind: the service's store, and the response
Left(mappings, used, status, detail, output_text, retry_after) ==
    [current_mappings |-> mappings, used_placeholders |-> used,
     exit |-> [status |-> status, detail |-> detail, output_text |-> output_text,
               retry_after |-> retry_after]]

\* the handler from the return of llm_client.generate on: generate raised
\* (except Exception: clear_session, 500), reidentify raised ValueError
\* (except ValueError: 400, no clear_session), or steps 3 and 4 and the return
AfterGenerate(mappings, used, reply) ==
    IF reply.raised
    THEN Left(<<>>, {}, 500, "Error processing request", <<>>, 0)
    ELSE IF reidentify(reply.text, mappings, fail_on_missing_placeholders).raised
    THEN Left(mappings, used, 400, "Invalid request", <<>>, 0)
    ELSE Left(<<>>, {}, 200, "",
              reidentify(reply.text, mappings, fail_on_missing_placeholders).text, 0)

\* the service and the response when the handler exits; clear_session and the
\* constructor draw a new salt
Exits(left) ==
    /\ current_mappings' = left.current_mappings
    /\ used_placeholders' = left.used_placeholders
    /\ exit' = left.exit
    /\ pc' = "exited"

InitDocOf(failed) ==
    /\ text = <<>>
    /\ sha256 = <<>>
    /\ session_salt \in Salts
    /\ fail_on_missing_placeholders \in BOOLEAN
    /\ current_mappings = <<>>
    /\ used_placeholders = {}
    /\ anonymization_stats = NoStats
    /\ all_matches = <<>>
    /\ anonymized_text = <<>>
    /\ response = <<>>
    /\ reidentified = NoResult
    /\ phase = "new"
    /\ prev_session = NoSession
    /\ task = <<>>
    /\ pc = "idle"
    /\ attempt = 0
    /\ payload = NoPayload
    /\ exit = NoExit
    /\ rate_state = <<>>
    /\ monotonic = Frac(0, 1)
    /\ environ \in DocEnvirons
    /\ request = NoRequest
    /\ gate = NoGate
    /\ attempts = <<>>
    /\ max_retries = llm_max_retries
    /\ call = NoCall
    /\ inflight = <<>>
    /\ llm_api_key \in {"", "sk-test"}
    /\ circuit_breaker_failures \in failed
    /\ requests = 0
    /\ HookIdle

\* a client that is new, and one that has failed before
InitDoc == InitDocOf({0, circuit_breaker_threshold - 1})

\* a request arrives. FastAPI resolves the Security dependency first (an
\* HTTPException of _require_api_key ends the request), then validates the
\* body (422), and only then calls the handler: AnonymizationService(),
\* _enforce_rate_limit, anonymize, and llm_client.generate up to its first
\* request upstream; without API key or with the circuit breaker open the mock
\* response is returned and the handler runs to its end
GenerateSecuredocOf(arriving) ==
    /\ pc \in {"idle", "exited"}
    /\ requests < MaxRequests
    /\ requests' = requests + 1
    /\ payload' = NoPayload
    /\ attempt' = 0
    /\ \E req \in arriving :
       \E k \in {req.task} :
       \E g \in {Admission(environ, req.head, k, req.text, rate_state, monotonic)} :
         /\ request' = req.head
         /\ text' = req.text
         /\ task' = k
         /\ gate' = g
         /\ rate_state' = g.limit.state
         /\ IF g.refusal.status_code # 0
            THEN /\ Exits(Left(<<>>, {}, g.refusal.status_code, g.refusal.detail, <<>>,
                               g.refusal.retry_after))
                 /\ session_salt' \in (IF g.entered THEN Salts ELSE {session_salt})
                 /\ anonymization_stats' = NoStats
                 /\ all_matches' = <<>>
                 /\ anonymized_text' = <<>>
                 /\ response' = <<>>
                 /\ reidentified' = NoResult
                 /\ UNCHANGED sha256
            ELSE \E salt \in Salts : \E hasher \in Hashers(req.text, salt) :
                 \E r \in {anonymize(req.text, hasher)} :
                   /\ sha256' = [x \in DOMAIN sha256 \cup {salt} |->
                                    IF x = salt THEN hasher ELSE sha256[x]]
                   /\ anonymization_stats' = r.stats
                   /\ all_matches' = r.all_matches
                   /\ anonymized_text' = r.anonymized_text
                   /\ IF UsesFallback(llm_api_key, circuit_breaker_failures)
                      THEN \E mock \in {generate_mock_response(r.anonymized_text, k)} :
                           \E left \in {AfterGenerate(r.current_mappings,
                                                      r.used_placeholders,
                                                      [raised |-> FALSE, text |-> mock])} :
                             /\ response' = mock
                             /\ reidentified' = reidentify(mock, r.current_mappings,
                                                           fail_on_missing_placeholders)
                             /\ Exits(left)
                             /\ session_salt' \in
                                  (IF left.current_mappings = <<>> THEN Salts ELSE {salt})
                      ELSE /\ current_mappings' = r.current_mappings
                           /\ used_placeholders' = r.used_placeholders
                           /\ session_salt' = salt
                           /\ response' = <<>>
                           /\ reidentified' = NoResult
                           /\ exit' = NoExit
                           /\ pc' = "attempt"
    /\ UNCHANGED <<fail_on_missing_placeholders, phase, prev_session, monotonic,
                   llm_api_key, circuit_breaker_failures, environ, sideVars, attempts, hookVars>>

GenerateSecuredoc == GenerateSecuredocOf(DocRequests)

\* one iteration of the retry loop: _make_request posts the payload; on a
\* retryable failure generate sleeps and the loop goes on, otherwise generate
\* returns or raises and the handler runs to its end
MakeRequest ==
    /\ pc = "attempt"
    /\ payload' = Payload(anonymized_text, task)
    /\ \E reply \in Replies(anonymized_text, current_mappings) :
       \E step \in {AttemptOutcome(reply, attempt, circuit_breaker_failures,
                                    max_retries)} :
         /\ circuit_breaker_failures' = step.failures
         /\ IF step.next = "retry"
            THEN /\ attempt' = attempt + 1
                 /\ UNCHANGED <<current_mappings, used_placeholders, session_salt,
                                response, reidentified, exit, pc>>
            ELSE \E left \in {AfterGenerate(current_mappings, used_placeholders,
                                            [raised |-> step.next = "raise",
                                             text |-> reply.content])} :
                   /\ response' = reply.content
                   /\ reidentified' =
                        IF step.next = "raise" THEN NoResult
                        ELSE reidentify(reply.content, current_mappings,
                                        fail_on_missing_placeholders)
                   /\ Exits(left)
                   /\ session_salt' \in
                        (IF left.current_mappings = <<>> /\ left.exit.status # 400
                         THEN Salts ELSE {session_salt})
                   /\ UNCHANGED attempt
    /\ UNCHANGED <<text, sha256, anonymization_stats, fail_on_missing_placeholders,
                   all_matches, anonymized_text, phase, prev_session, task,
                   rate_state, monotonic, llm_api_key, requests, environ, sideVars, request,
                   gate, attempts, hookVars>>

\* a second passes between requests
TickMonotonic ==
    /\ pc \in {"idle", "exited"}
    /\ FracLess(monotonic, Frac(MaxTicks, 1))
    /\ monotonic' = FracAdd(monotonic, Frac(1, 1))
    /\ UNCHANGED <<anonVars, hookVars, task, pc, attempt, payload, exit, rate_state,
                   llm_api_key, circuit_breaker_failures, requests, environ, sideVars, request,
                   gate, attempts>>

Next == GenerateSecuredoc \/ MakeRequest \/ TickMonotonic
Spec == InitDoc /\ [][Next]_vars

\* degraded mode: a client one failure away from the open breaker or at it,
\* with and without an upstream credential
InitDegraded ==
    InitDocOf({circuit_breaker_threshold - 1, circuit_breaker_threshold})

GenerateSecuredocDegraded == GenerateSecuredocOf(DegradedRequests)

NextDegraded == GenerateSecuredocDegraded \/ MakeRequest \/ TickMonotonic
SpecDegraded == InitDegraded /\ [][NextDegraded]_vars

-----------------------------------------------------------------------------
(* _require_api_key called on its own, as the unit tests call it *)

\* SECUREDOC_REQUIRE_API_KEY not set (required), set to a word that reads as
\* true or as false, in any case and with white space around it;
\* SECUREDOC_API_KEY not set, empty, blank, a key, and the key with white
\* space around it
AuthEnvirons ==
    { Environ(require, api_key, Unset, Unset, Unset) :
        require \in { Unset, EnvValue(<<"y","e","s">>), EnvValue(<<"f","a","l","s","e">>),
                      EnvValue(<<" ","O","F","F"," ">>), EnvValue(<<"T","r","u","e">>) },
        api_key \in { Unset, EnvValue(<<>>), EnvValue(<<" ">>), EnvValue(<<"k","1">>),
                      EnvValue(<<" ","k","1"," ">>) } }

\* the X-API-Key header: absent, empty, blank, the key, the key followed by a
\* space, another key
ApiKeys ==
    { NoHeader, Header(<<>>), Header(<<" ">>), Header(<<"k","1">>),
      Header(<<"k","1"," ">>), Header(<<"w">>) }

InitAuth ==
    /\ AnonIdle
    /\ HookIdle
    /\ HandlerIdle
    /\ environ \in AuthEnvirons

\* one call of _require_api_key(x_api_key)
RequireApiKey ==
    /\ requests < MaxRequests
    /\ requests' = requests + 1
    /\ \E x \in ApiKeys :
         /\ request' = [NoRequest EXCEPT !.x_api_key = x]
         /\ gate' = [NoGate EXCEPT !.auth = require_api_key(environ, x)]
    /\ UNCHANGED <<anonVars, hookVars, task, pc, attempt, payload, exit, rate_state,
                   monotonic, llm_api_key, circuit_breaker_failures, environ, sideVars, attempts>>

NextAuth == RequireApiKey
SpecAuth == InitAuth /\ [][NextAuth]_vars

-----------------------------------------------------------------------------
(* _enforce_rate_limit called on its own, as the unit tests call it *)

\* the limiter enabled (the default) with rate and burst: 100 and 1, 0.4 and
\* 1, 1 and 2, 2 and 1.5, neither set (2 and 5); with a rate and with a burst
\* that is not a number; with a rate of zero and with a negative burst; with
\* a rate of zero and a burst that is not a number; and the limiter switched
\* off
RateEnvirons ==
    { Environ(Unset, Unset, Unset, c[1], c[2]) :
        c \in { <<EnvValue(<<"1","0","0">>), EnvValue(<<"1">>)>>,
                <<EnvValue(<<"0",".","4">>), EnvValue(<<"1">>)>>,
                <<EnvValue(<<"1">>), EnvValue(<<"2">>)>>,
                <<EnvValue(<<"2">>), EnvValue(<<"1",".","5">>)>>,
                <<Unset, Unset>>,
                <<EnvValue(<<"x">>), EnvValue(<<"5">>)>>,
                <<EnvValue(<<"2">>), EnvValue(<<"y">>)>>,
                <<EnvValue(<<"0">>), EnvValue(<<"1">>)>>,
                <<EnvValue(<<"1">>), EnvValue(<<"-","1">>)>>,
                <<EnvValue(<<"0">>), EnvValue(<<"y">>)>> } }
    \cup { Environ(Unset, Unset, EnvValue(<<"f","a","l","s","e">>),
                   EnvValue(<<"1">>), EnvValue(<<"1">>)) }

\* the callers: one without API key, known by its address, and one with a key
Callers ==
    { [api_key |-> <<>>, client_host |-> <<"h">>],
      [api_key |-> <<"k","1">>, client_host |-> <<"h">>] }

\* the time a caller lets pass after an attempt: half a second, two seconds,
\* or two and a half seconds
Waits == { Frac(1, 2), Frac(2, 1), Frac(5, 2) }

InitRate ==
    /\ AnonIdle
    /\ HookIdle
    /\ HandlerIdle
    /\ environ \in RateEnvirons

\* one call of _enforce_rate_limit(request, api_key)
EnforceRateLimitCall ==
    /\ requests < MaxAttempts
    /\ requests' = requests + 1
    /\ \E caller \in Callers :
       \E identity \in {IdentityOf(caller.api_key, caller.client_host)} :
       \E limit \in {EnforceRateLimit(environ, rate_state, identity, monotonic)} :
         /\ request' = [NoRequest EXCEPT !.client_host = caller.client_host]
         /\ gate' = [NoGate EXCEPT !.entered = TRUE, !.identity = identity,
                                   !.now = monotonic, !.before = rate_state,
                                   !.limit = limit]
         /\ rate_state' = limit.state
         /\ attempts' = Append(attempts,
                               [identity |-> identity, now |-> monotonic,
                                raised |-> limit.raised,
                                status_code |-> limit.status_code,
                                retry_after |-> limit.retry_after])
    /\ UNCHANGED <<anonVars, hookVars, task, pc, attempt, payload, exit, monotonic,
                   llm_api_key, circuit_breaker_failures, environ, sideVars>>

\* time passes after an attempt and before the next one
Elapse ==
    /\ attempts # <<>>
    /\ requests < MaxAttempts
    /\ monotonic = attempts[Len(attempts)].now
    /\ \E wait \in Waits : monotonic' = FracAdd(monotonic, wait)
    /\ UNCHANGED <<anonVars, hookVars, task, pc, attempt, payload, exit, rate_state,
                   llm_api_key, circuit_breaker_failures, requests, environ, sideVars, request,
                   gate, attempts>>

NextRate == EnforceRateLimitCall \/ Elapse
SpecRate == InitRate /\ [][NextRate]_vars

-----------------------------------------------------------------------------
(* LLMClient.generate called on its own, against a simulated upstream *)

\* LLM_MAX_RETRIES as the environment may set it; the default is 3
RetrySettings == {0, 1, 2, 3}

\* the masked text handed to generate
ClientPrompt == <<"[","I","D","_","1","]">>

\* what the simulated upstream answers to one request: the generated text,
\* a status that is not retried, one that is, a timeout, or another exception
ClientReplies ==
    [kind : {"status"}, status_code : {200}, content : {<<"o","k">>}]
    \cup [kind : {"status"}, status_code : {404, 503}, content : {<<>>}]
    \cup [kind : {"timeout", "error"}, status_code : {0}, content : {<<>>}]

\* the calls that failed upstream in a row when the next call begins, counted
\* up to the threshold: a call that raised after a network attempt adds one,
\* a call that returned the generated text starts the count again
StreakAfter(streak, outcome, posts) ==
    IF outcome = "returned" THEN 0
    ELSE IF outcome = "raised" /\ posts > 0
    THEN Min(streak + 1, circuit_breaker_threshold)
    ELSE streak

\* asyncio.CancelledError is a BaseException: no except clause of generate
\* catches it, and the circuit breaker count stays
Cancelled_counted(failures) == failures + 1
Cancelled(failures) == failures

\* LLMClient() with the settings of the environment
InitClient ==
    /\ AnonIdle
    /\ HookIdle
    /\ task = <<>>
    /\ pc = "idle"
    /\ attempt = 0
    /\ payload = NoPayload
    /\ exit = NoExit
    /\ rate_state = <<>>
    /\ monotonic = Frac(0, 1)
    /\ requests = 0
    /\ environ = NoEnviron
    /\ request = NoRequest
    /\ gate = NoGate
    /\ attempts = <<>>
    /\ inflight = <<>>
    /\ llm_api_key \in {"", "sk-test"}
    /\ max_retries \in RetrySettings
    /\ circuit_breaker_failures = 0
    /\ call = NoCall

\* generate(prompt, task) is called: the mock response without API key or
\* with the circuit breaker open; else the loop begins, and with no
\* iteration to make the call raises at once; else the first request is sent
StartCall ==
    /\ pc \in {"idle", "done"}
    /\ attempt' = 0
    /\ \E k \in Tasks :
         /\ task' = k
         /\ IF UsesFallback(llm_api_key, circuit_breaker_failures)
            THEN /\ call' = [posts |-> 0, trace |-> <<>>, outcome |-> "fallback",
                             result |-> generate_mock_response(ClientPrompt, k),
                             before |-> circuit_breaker_failures,
                             streak |-> StreakAfter(call.streak, call.outcome,
                                                    call.posts)]
                 /\ payload' = NoPayload
                 /\ pc' = "done"
            ELSE IF max_retries <= 0
            THEN /\ call' = [posts |-> 0, trace |-> <<>>, outcome |-> "raised",
                             result |-> <<>>,
                             before |-> circuit_breaker_failures,
                             streak |-> StreakAfter(call.streak, call.outcome,
                                                    call.posts)]
                 /\ payload' = NoPayload
                 /\ pc' = "done"
            ELSE /\ call' = [posts |-> 1, trace |-> <<>>, outcome |-> "none",
                             result |-> <<>>,
                             before |-> circuit_breaker_failures,
                             streak |-> StreakAfter(call.streak, call.outcome,
                                                    call.posts)]
                 /\ payload' = Payload(ClientPrompt, k)
                 /\ pc' = "awaiting"
    /\ UNCHANGED <<anonVars, hookVars, exit, rate_state, monotonic, llm_api_key,
                   circuit_breaker_failures, requests, environ, request, gate,
                   attempts, max_retries, inflight>>

\* the request of the attempt ends: generate returns the text, raises, or
\* begins the sleep before the next attempt
Reply ==
    /\ pc = "awaiting"
    /\ \E reply \in ClientReplies :
       \E step \in {AttemptOutcome(reply, attempt, circuit_breaker_failures,
                                    max_retries)} :
       \E trace \in {IF step.failure = "none" THEN call.trace
                     ELSE Append(call.trace, [attempt |-> attempt,
                                              failure |-> step.failure,
                                              slept |-> step.delay])} :
         /\ circuit_breaker_failures' = step.failures
         /\ IF step.next = "retry"
            THEN /\ call' = [call EXCEPT !.trace = trace]
                 /\ pc' = "sleeping"
            ELSE IF step.next = "return"
            THEN /\ call' = [call EXCEPT !.trace = trace, !.outcome = "returned",
                                         !.result = reply.content]
                 /\ pc' = "done"
            ELSE /\ call' = [call EXCEPT !.trace = trace, !.outcome = "raised"]
                 /\ pc' = "done"
    /\ UNCHANGED <<anonVars, hookVars, task, attempt, payload, exit, rate_state,
                   monotonic, llm_api_key, requests, environ, request, gate,
                   attempts, max_retries, inflight>>

\* asyncio.sleep(delay) returns and the next iteration sends its request
Wake ==
    /\ pc = "sleeping"
    /\ attempt' = attempt + 1
    /\ call' = [call EXCEPT !.posts = call.posts + 1]
    /\ pc' = "awaiting"
    /\ UNCHANGED <<anonVars, hookVars, task, payload, exit, rate_state, monotonic,
                   llm_api_key, circuit_breaker_failures, requests, environ, request,
                   gate, attempts, max_retries, inflight>>

\* the task running generate is cancelled while it awaits the request or
\* the sleep
Cancel ==
    /\ pc \in {"awaiting", "sleeping"}
    /\ circuit_breaker_failures' = Cancelled(circuit_breaker_failures)
    /\ call' = [call EXCEPT !.outcome = "cancelled"]
    /\ pc' = "done"
    /\ UNCHANGED <<anonVars, hookVars, task, attempt, payload, exit, rate_state,
                   monotonic, llm_api_key, requests, environ, request, gate,
                   attempts, max_retries, inflight>>

NextClient == StartCall \/ Reply \/ Wake \/ Cancel
SpecClient == InitClient /\ [][NextClient]_vars

\* callers keep calling, every request upstream ends, every sleep ends
SpecClientLive ==
    /\ InitClient /\ [][NextClient]_vars
    /\ WF_vars(StartCall) /\ WF_vars(Reply) /\ WF_vars(Wake)

-----------------------------------------------------------------------------
(* concurrent requests to generate_securedoc on one event loop             *)
(*                                                                         *)
(* generate_securedoc is a coroutine: between its entry and its one await  *)
(* (llm_client.generate) it runs without giving up the event loop, and     *)
(* _enforce_rate_limit, a plain function called in that stretch, runs from *)
(* its read of _rate_state to its write in one piece.  Requests overlap    *)
(* while they wait: for their turn on the loop, and for the upstream.      *)

\* the limiter enabled with rate and burst: 1 and 1, 1 and 2, 2 and 1.5
ConcurrentEnvirons ==
    { Environ(Unset, Unset, Unset, EnvValue(c[1]), EnvValue(c[2])) :
        c \in { << <<"1">>, <<"1">> >>, << <<"1">>, <<"2">> >>,
                << <<"2">>, <<"1",".","5">> >> } }

\* _rate_state as _enforce_rate_limit reads it (_rate_state.get): the table
\* as it is when the function runs, and the table as it was when the request
\* was accepted
RateStateRead_at_accept(stored, accepted) == accepted
RateStateRead(stored, accepted) == stored

InitConcurrent ==
    /\ AnonIdle
    /\ HookIdle
    /\ HandlerIdle
    /\ environ \in ConcurrentEnvirons

\* a request is accepted: its credential and body passed, and its handler
\* waits for the event loop
Accept ==
    /\ Len(inflight) < MaxInflight
    /\ \E caller \in Callers :
         inflight' = Append(inflight,
                            [caller |-> caller, pc |-> "accepted",
                             accepted |-> rate_state, status_code |-> 0])
    /\ requests' = requests + 1
    /\ UNCHANGED <<anonVars, hookVars, task, pc, attempt, payload, exit, rate_state,
                   monotonic, llm_api_key, circuit_breaker_failures, environ,
                   max_retries, call, request, gate, attempts>>

\* the handler of request i runs from its entry to its await: the call of
\* _enforce_rate_limit, then anonymize and generate up to the request
\* upstream; a refusal of the limiter ends the request
RunHandler(i) ==
    /\ i \in DOMAIN inflight
    /\ inflight[i].pc = "accepted"
    /\ \E identity \in {IdentityOf(inflight[i].caller.api_key,
                                    inflight[i].caller.client_host)} :
       \E limit \in {EnforceRateLimit(environ,
                                      RateStateRead(rate_state, inflight[i].accepted),
                                      identity, monotonic)} :
         /\ rate_state' = limit.state
         /\ inflight' = [inflight EXCEPT
                           ![i].pc = IF limit.raised THEN "done" ELSE "awaiting",
                           ![i].status_code = limit.status_code]
         /\ attempts' = Append(attempts,
                               [identity |-> identity, now |-> monotonic,
                                raised |-> limit.raised,
                                status_code |-> limit.status_code,
                                retry_after |-> limit.retry_after])
    /\ UNCHANGED <<anonVars, hookVars, task, pc, attempt, payload, exit, monotonic,
                   llm_api_key, circuit_breaker_failures, requests, environ,
                   max_retries, call, request, gate>>

\* the upstream answers request i: its handler runs from the await to its
\* return
Resume(i) ==
    /\ i \in DOMAIN inflight
    /\ inflight[i].pc = "awaiting"
    /\ inflight' = [inflight EXCEPT ![i].pc = "done", ![i].status_code = 200]
    /\ UNCHANGED <<anonVars, hookVars, task, pc, attempt, payload, exit, rate_state,
                   monotonic, llm_api_key, circuit_breaker_failures, requests,
                   environ, max_retries, call, request, gate, attempts>>

\* half a second passes
Pass ==
    /\ FracLess(monotonic, Frac(MaxTicks, 1))
    /\ monotonic' = FracAdd(monotonic, Frac(1, 2))
    /\ UNCHANGED <<anonVars, hookVars, task, pc, attempt, payload, exit, rate_state,
                   llm_api_key, circuit_breaker_failures, requests, environ,
                   sideVars, request, gate, attempts>>

RunSomeHandler == \E i \in 1..MaxInflight : RunHandler(i)
ResumeSome == \E i \in 1..MaxInflight : Resume(i)

NextConcurrent == Accept \/ RunSomeHandler \/ ResumeSome \/ Pass
SpecConcurrent == InitConcurrent /\ [][NextConcurrent]_vars

-----------------------------------------------------------------------------
(* concurrent deliveries to stripe_webhook on one event loop               *)
(*                                                                         *)
(* stripe_webhook is a coroutine with one await, request.body() (line 66), *)
(* after the two gates on the header and the secret.  From construct_event *)
(* to the return or the except clause it runs without giving up the event  *)
(* loop.  Deliveries overlap while they wait for their body.               *)

\* the verified events of concurrent deliveries: checkout events of two
\* identifiers, created now or 301 seconds ago, or lacking data.object
HookEvents(now) ==
    { e \in Events(now) :
        /\ e.id \in {"evt_a", "evt_b"}
        /\ e.type = "checkout.session.completed"
        /\ e.created \in {now, now - 301} }

\* processed_events as the try block reads it (event_id in processed_events):
\* the ledger as it is when the block runs, and the ledger as it was when the
\* delivery was received
LedgerRead_at_receipt(stored, received) == received
LedgerRead(stored, received) == stored

InitHookConcurrent ==
    /\ InitWebhook
    /\ wall_clock = 1000

\* a delivery is received: lines 57-63 reject it, or the handler waits for
\* the body
ReceiveDelivery ==
    /\ Len(inflight) < MaxInflight
    /\ \E signature \in Signatures :
       \E event \in (IF signature = "good" /\ stripe_webhook_secret # ""
                     THEN HookEvents(wall_clock) ELSE {NoEvent}) :
       \E out \in {WebhookOutcome(signature, stripe_webhook_secret, event,
                                  wall_clock, processed_events)} :
         inflight' = Append(inflight,
             [signature |-> signature, event |-> event,
              received |-> processed_events,
              pc |-> IF out.reached \in {"signature_header", "webhook_secret"}
                     THEN "done" ELSE "reading",
              status |-> IF out.reached \in {"signature_header", "webhook_secret"}
                         THEN out.status ELSE 0,
              message |-> "", recorded |-> FALSE])
    /\ deliveries' = deliveries + 1
    /\ UNCHANGED <<stripe_webhook_secret, processed_events, wall_clock, delivery,
                   recorded_log, delivered_ok, anonVars, task, pc, attempt, payload,
                   exit, rate_state, monotonic, llm_api_key, circuit_breaker_failures,
                   requests, environ, request, gate, attempts, max_retries, call>>

\* the body of delivery i has arrived: the handler runs from line 68 to its
\* response
HandleDelivery(i) ==
    /\ i \in DOMAIN inflight
    /\ inflight[i].pc = "reading"
    /\ \E out \in {WebhookOutcome(inflight[i].signature, stripe_webhook_secret,
                                  inflight[i].event, wall_clock,
                                  LedgerRead(processed_events, inflight[i].received))} :
         /\ processed_events' = out.ledger
         /\ recorded_log' = IF out.recorded
                            THEN Append(recorded_log,
                                        [event_id |-> inflight[i].event.id,
                                         processed_at |-> wall_clock])
                            ELSE recorded_log
         /\ inflight' = [inflight EXCEPT ![i].pc = "done",
                                         ![i].status = out.status,
                                         ![i].message = out.message,
                                         ![i].recorded = out.recorded]
    /\ UNCHANGED <<stripe_webhook_secret, wall_clock, delivery, delivered_ok,
                   deliveries, anonVars, task, pc, attempt, payload,
                   exit, rate_state, monotonic, llm_api_key, circuit_breaker_failures,
                   requests, environ, request, gate, attempts, max_retries, call>>

HandleSomeDelivery == \E i \in 1..MaxInflight : HandleDelivery(i)

NextHookConcurrent == ReceiveDelivery \/ HandleSomeDelivery
SpecHookConcurrent == InitHookConcurrent /\ [][NextHookConcurrent]_vars

-----------------------------------------------------------------------------
(* concurrent calls of generate on the one llm_client of securedoc.py      *)
(*                                                                         *)
(* generate reads the circuit breaker once, before its loop (lines 79-84). *)
(* Each iteration awaits _make_request, and after a retryable failure      *)
(* asyncio.sleep: at both awaits other calls run.  The counter is read and *)
(* written without an await in between.                                    *)

\* the one client, with an API key, new or one failure from the threshold
InitSharedClient ==
    /\ AnonIdle
    /\ HookIdle
    /\ task = <<>>
    /\ pc = "idle"
    /\ attempt = 0
    /\ payload = NoPayload
    /\ exit = NoExit
    /\ rate_state = <<>>
    /\ monotonic = Frac(0, 1)
    /\ requests = 0
    /\ environ = NoEnviron
    /\ request = NoRequest
    /\ gate = NoGate
    /\ attempts = <<>>
    /\ inflight = <<>>
    /\ llm_api_key = "sk-test"
    /\ max_retries = llm_max_retries
    /\ circuit_breaker_failures \in {0, circuit_breaker_threshold - 1}
    /\ call = NoCall

\* the request upstream that a call starts, with the counter as it is then
Posted(i, n) ==
    Append(attempts, [call |-> i, attempt |-> n,
                      failures |-> circuit_breaker_failures])

\* a handler calls generate: the mock response with the breaker open, else
\* the first request is sent
BeginGenerate ==
    /\ Len(inflight) < MaxInflight
    /\ requests' = requests + 1
    /\ IF UsesFallback(llm_api_key, circuit_breaker_failures)
       THEN /\ inflight' = Append(inflight, [pc |-> "done", attempt |-> 0,
                                             outcome |-> "fallback"])
            /\ UNCHANGED attempts
       ELSE /\ inflight' = Append(inflight, [pc |-> "awaiting", attempt |-> 0,
                                             outcome |-> "none"])
            /\ attempts' = Posted(Len(inflight) + 1, 0)
    /\ UNCHANGED <<anonVars, hookVars, task, pc, attempt, payload, exit, rate_state,
                   monotonic, llm_api_key, circuit_breaker_failures, environ,
                   request, gate, max_retries, call>>

\* the request of call i ends: the call returns, raises, or begins the sleep
\* before its next attempt
ReplyTo(i) ==
    /\ i \in DOMAIN inflight
    /\ inflight[i].pc = "awaiting"
    /\ \E reply \in ClientReplies :
       \E step \in {AttemptOutcome(reply, inflight[i].attempt,
                                    circuit_breaker_failures, max_retries)} :
         /\ circuit_breaker_failures' = step.failures
         /\ inflight' = [inflight EXCEPT
                           ![i].pc = IF step.next = "retry" THEN "sleeping" ELSE "done",
                           ![i].outcome = IF step.next = "retry" THEN "none"
                                          ELSE IF step.next = "return" THEN "returned"
                                          ELSE "raised"]
    /\ UNCHANGED <<anonVars, hookVars, task, pc, attempt, payload, exit, rate_state,
                   monotonic, llm_api_key, requests, environ, request, gate,
                   attempts, max_retries, call>>

\* the sleep of call i ends and the next iteration sends its request
WakeCall(i) ==
    /\ i \in DOMAIN inflight
    /\ inflight[i].pc = "sleeping"
    /\ inflight' = [inflight EXCEPT ![i].pc = "awaiting",
                                    ![i].attempt = inflight[i].attempt + 1]
    /\ attempts' = Posted(i, inflight[i].attempt + 1)
    /\ UNCHANGED <<anonVars, hookVars, task, pc, attempt, payload, exit, rate_state,
                   monotonic, llm_api_key, circuit_breaker_failures, requests,
                   environ, request, gate, max_retries, call>>

ReplyToSome == \E i \in 1..MaxInflight : ReplyTo(i)
WakeSomeCall == \E i \in 1..MaxInflight : WakeCall(i)

NextSharedClient == BeginGenerate \/ ReplyToSome \/ WakeSomeCall
SpecSharedClient == InitSharedClient /\ [][NextSharedClient]_vars

-----------------------------------------------------------------------------
(* Properties of the anonymization service *)

Anonymized == phase \in {"anonymized", "reidentified"}

\* C3: round trip.  reidentify applied to the unmodified masked text returns
\* exactly the original text, for every input, overlapping or identically
\* starting spans included.
RoundTrip ==
    (phase = "reidentified" /\ response = anonymized_text)
        => (~reidentified.raised /\ reidentified.text = text)

\* C4: no leakage.  After anonymize none of the detected originals (the values
\* of the returned store) occurs anywhere in the masked text.
NoLeakage ==
    phase = "anonymized"
        => \A i \in DOMAIN current_mappings :
               ~Contains(anonymized_text, current_mappings[i].original)

\* the digest the current session gives to a match
MatchDigest(m) == sha256[session_salt][<<m.original, m.category>>]

\* the forms a placeholder issued for the match m can take
PlaceholderForms(m) ==
    {BasePlaceholder(m.category, MatchDigest(m))}
      \cup {CounterPlaceholder(m.category, MatchDigest(m), k) : k \in 1..Len(all_matches)}

\* C5: placeholder uniqueness.  Within one anonymize call every detected match
\* receives a placeholder of its own: the store has exactly one entry per match,
\* holding that match's original; no two matches share a placeholder and no
\* placeholder is a prefix or substring of another; a repeated original gets a
\* numeric suffix.
PlaceholderUniqueness ==
    Anonymized =>
        /\ Len(all_matches) = Len(Detect(text))
        /\ Len(current_mappings) = Len(all_matches)
        /\ used_placeholders = Range(DictKeys(current_mappings))
        /\ \A i \in DOMAIN all_matches :
             /\ all_matches[i].placeholder \in PlaceholderForms(all_matches[i])
             /\ \E k \in DOMAIN current_mappings :
                   /\ current_mappings[k].placeholder = all_matches[i].placeholder
                   /\ current_mappings[k].original = all_matches[i].original
        /\ \A i, j \in DOMAIN all_matches :
             i # j =>
                /\ all_matches[i].placeholder # all_matches[j].placeholder
                /\ ~Contains(all_matches[i].placeholder, all_matches[j].placeholder)
                /\ (/\ all_matches[i].original = all_matches[j].original
                    /\ all_matches[i].category = all_matches[j].category)
                     => \/ all_matches[i].placeholder
                             # BasePlaceholder(all_matches[i].category,
                                               MatchDigest(all_matches[i]))
                        \/ all_matches[j].placeholder
                             # BasePlaceholder(all_matches[j].category,
                                               MatchDigest(all_matches[j]))

\* C5 witness: a session in which an original is repeated and its second
\* match was issued the suffixed placeholder
RepeatedOriginalIssued ==
    /\ phase = "anonymized"
    /\ \E i, j \in DOMAIN all_matches :
         /\ i # j
         /\ all_matches[i].original = all_matches[j].original
         /\ all_matches[i].category = all_matches[j].category
         /\ all_matches[j].placeholder
              = CounterPlaceholder(all_matches[j].category, MatchDigest(all_matches[j]), 1)

\* the text t with every occurrence of a placeholder of the store replaced by
\* its original, in one pass from the left
RECURSIVE SubstituteFrom(_, _, _)
SubstituteFrom(t, mappings, i) ==
    IF i > Len(t) THEN <<>>
    ELSE LET hits == {k \in DOMAIN mappings :
                        /\ i + Len(mappings[k].placeholder) - 1 <= Len(t)
                        /\ SubSeq(t, i, i + Len(mappings[k].placeholder) - 1)
                             = mappings[k].placeholder}
         IN  IF hits = {} THEN <<t[i]>> \o SubstituteFrom(t, mappings, i + 1)
             ELSE LET k == CHOOSE k \in hits : TRUE
                  IN  mappings[k].original
                        \o SubstituteFrom(t, mappings, i + Len(mappings[k].placeholder))

MissingKeys == {i \in DOMAIN current_mappings :
                   ~Contains(response, current_mappings[i].placeholder)}

\* C6: re-identification integrity.  In strict mode reidentify raises, and
\* returns no text, exactly when at least one placeholder of the store is
\* absent from the text given; in non-strict mode it never raises and replaces
\* every placeholder still present with its original.
ReidentifyIntegrity ==
    phase = "reidentified" =>
        /\ fail_on_missing_placeholders => (reidentified.raised <=> MissingKeys # {})
        /\ reidentified.raised => reidentified.text = <<>>
        /\ ~fail_on_missing_placeholders =>
              /\ ~reidentified.raised
              /\ reidentified.text = SubstituteFrom(response, current_mappings, 1)

\* C6 witness: strict mode raised although one placeholder was still present,
\* and (in another run) non-strict mode restored a text with one missing
StrictRaisedOnPartialLoss ==
    /\ phase = "reidentified"
    /\ fail_on_missing_placeholders
    /\ reidentified.raised
    /\ MissingKeys # {}
    /\ MissingKeys # DOMAIN current_mappings

SameDetection ==
    /\ Len(all_matches) = Len(prev_session.all_matches)
    /\ \A i \in DOMAIN all_matches :
          /\ all_matches[i].start = prev_session.all_matches[i].start
          /\ all_matches[i].end = prev_session.all_matches[i].end
          /\ all_matches[i].original = prev_session.all_matches[i].original
          /\ all_matches[i].category = prev_session.all_matches[i].category
    /\ anonymization_stats = prev_session.stats

TwoSessions ==
    /\ phase = "anonymized"
    /\ prev_session.held
    /\ prev_session.salt # session_salt

-----------------------------------------------------------------------------
(* Webhook claims *)

Verified(d) == d.signature = "good" /\ stripe_webhook_secret # ""

\* |now - created| of a delivery, an absent creation time read as 0
TimeDifference(d) ==
    LET created == IF d.event.has_created THEN d.event.created ELSE 0
    IN  IF d.now >= created THEN d.now - created ELSE created - d.now

AlreadyProcessed(d) == d.status = 200 /\ d.message = "Event already processed"

Recordings(event_id) == {i \in DOMAIN recorded_log : recorded_log[i].event_id = event_id}

\* the ledger writes made before the last delivery
LogBefore == IF delivery.recorded THEN SubSeq(recorded_log, 1, Len(recorded_log) - 1)
             ELSE recorded_log

\* C8 as stated: in any sequence of deliveries, a verified in-window delivery
\* of an identifier that already had a verified in-window delivery is answered
\* 'already processed', and the effect for the identifier has run exactly once.
IdempotentAlways ==
    (Verified(delivery) /\ TimeDifference(delivery) <= 300 /\ delivery.seen_before)
        => /\ AlreadyProcessed(delivery)
           /\ Cardinality(Recordings(delivery.event.id)) = 1

\* C8 amended: a verified in-window delivery of an identifier that was
\* processed and recorded before, with fewer than MAX_PROCESSED_EVENTS ledger
\* writes since, runs no effect, leaves the ledger alone and is answered
\* 'already processed'.
IdempotentWhileRetained ==
    LET before == {i \in DOMAIN LogBefore : LogBefore[i].event_id = delivery.event.id}
    IN  (/\ Verified(delivery) /\ TimeDifference(delivery) <= 300
         /\ before # {}
         /\ Len(LogBefore) - SetMax(before) < MAX_PROCESSED_EVENTS)
            => /\ AlreadyProcessed(delivery)
               /\ ~delivery.recorded
               /\ processed_events = delivery.ledger_before

\* C8 witness: a redelivery answered 'already processed' after another
\* identifier was recorded in between
RedeliveryAfterOthers ==
    /\ Verified(delivery) /\ AlreadyProcessed(delivery)
    /\ \E i \in Recordings(delivery.event.id) : i < Len(recorded_log)

ProcessingRaises(d) ==
    /\ d.event.id \notin LedgerIds(d.ledger_before)
    /\ d.event.type = "checkout.session.completed"
    /\ ~d.event.data_ok

NoEffect(d) == ~d.recorded /\ processed_events = d.ledger_before

\* C10 as stated: a verified event is rejected with 400, without effect and
\* with the ledger unchanged, if and only if |now - created| > 300.
RejectedIffOutsideWindow ==
    Verified(delivery)
        => ((delivery.status = 400 /\ NoEffect(delivery))
                <=> TimeDifference(delivery) > 300)

\* C10 amended: a verified event with |now - created| > 300 (an absent creation
\* time read as 0) is rejected with 400, without effect and with the ledger
\* unchanged; exactly 300 passes; a verified event is answered 400 only when
\* it is outside the window or its processing raises, and then without effect.
ReplayWindow ==
    Verified(delivery)
        => /\ TimeDifference(delivery) > 300
                => (delivery.status = 400 /\ NoEffect(delivery))
           /\ delivery.status = 400
                <=> (TimeDifference(delivery) > 300 \/ ProcessingRaises(delivery))
           /\ delivery.status = 400 => NoEffect(delivery)
           /\ delivery.status # 400 => delivery.status = 200

\* C10 witness: an event without creation time accepted at a difference of
\* exactly 300 seconds
AbsentCreatedAcceptedAtTolerance ==
    /\ Verified(delivery)
    /\ ~delivery.event.has_created
    /\ TimeDifference(delivery) = 300
    /\ delivery.status = 200 /\ delivery.recorded

\* C11 as stated: a verified event rejected because its timestamp is outside
\* the window reaches the caller with the detail raised by the replay check,
\* not with the detail of the generic error path.
ReplayErrorIsSpecific ==
    (Verified(delivery) /\ TimeDifference(delivery) > 300)
        => /\ delivery.status = 400
           /\ delivery.detail = "Event timestamp outside tolerance"

StepOf(name) == CHOOSE i \in DOMAIN HandlerSteps : HandlerSteps[i] = name

\* C12: a delivery without signature header is rejected with 400 at the first
\* step, whether or not a secret is configured; a delivery with a header and
\* no configured secret is rejected with 500 at the second step; in both
\* cases the handler stops before construct_event, the ledger lookup and the
\* ledger write, and the ledger is as before.
WebhookGating ==
    /\ (deliveries > 0 /\ delivery.signature = "")
          => /\ delivery.status = 400
             /\ delivery.detail = "Missing Stripe signature"
             /\ delivery.reached = "signature_header"
    /\ (deliveries > 0 /\ delivery.signature # "" /\ stripe_webhook_secret = "")
          => /\ delivery.status = 500
             /\ delivery.reached = "webhook_secret"
    /\ (deliveries > 0 /\ (delivery.signature = "" \/ stripe_webhook_secret = ""))
          => /\ StepOf(delivery.reached) < StepOf("construct_event")
             /\ ~delivery.recorded
             /\ processed_events = delivery.ledger_before
             /\ recorded_log = LogBefore

\* C12 witness: with a filled ledger, a delivery without signature header is
\* turned away
UnsignedDeliveryTurnedAway ==
    /\ deliveries > 0
    /\ delivery.signature = ""
    /\ processed_events # <<>>
    /\ delivery.status = 400


-----------------------------------------------------------------------------
(* Pipeline claims *)

\* C1 as stated: whatever the exit path of generate_securedoc, when the
\* handler has returned or raised the request's current_mappings and
\* used_placeholders are empty.
SessionErasedAtExit ==
    pc = "exited" => (current_mappings = <<>> /\ used_placeholders = {})

\* C2 as stated: every payload posted upstream carries the output of anonymize
\* as its text, and nothing of the request that anonymize would have masked.
UpstreamOnlyMasked ==
    payload.sent => /\ payload.user = anonymized_text
                    /\ Detect(payload.system) = <<>>

\* authentication is required and no credential is configured: the variable
\* is not set, or holds nothing but white space
AuthMisconfigured ==
    /\ env_bool(environ, "SECUREDOC_REQUIRE_API_KEY", TRUE)
    /\ \/ ~environ["SECUREDOC_API_KEY"].set
       \/ \A i \in 1..Len(environ["SECUREDOC_API_KEY"].value) :
            environ["SECUREDOC_API_KEY"].value[i] \in Whitespace

\* nothing of the handler body has happened in the run: no bucket was
\* created, no digest was computed, no text was masked, nothing was posted
HandlerNeverEntered ==
    /\ ~gate.entered
    /\ rate_state = <<>>
    /\ sha256 = <<>>
    /\ all_matches = <<>>
    /\ anonymized_text = <<>>
    /\ current_mappings = <<>>
    /\ ~payload.sent
    /\ pc # "attempt"

\* C13: when authentication is required and no credential is configured,
\* every request to the generate endpoint, with any X-API-Key or none, is
\* answered 503 "Auth misconfigured", and the run never reaches the rate
\* limiter, the anonymization or the outbound client
FailClosedAuth ==
    AuthMisconfigured =>
        /\ HandlerNeverEntered
        /\ requests > 0 =>
             /\ pc = "exited"
             /\ gate.auth.raised
             /\ exit.status = 503
             /\ exit.detail = "Auth misconfigured"

\* C13 witness: with a credential of white space, a request that carries a key
\* and a valid body with a diagnosis code has been answered
KeyedRequestMetMisconfiguration ==
    /\ AuthMisconfigured
    /\ environ["SECUREDOC_API_KEY"].set
    /\ environ["SECUREDOC_API_KEY"].value # <<>>
    /\ requests > 0
    /\ request.x_api_key.set
    /\ gate.valid
    /\ Detect(text) # <<>>

\* SECUREDOC_REQUIRE_API_KEY reads as true, or is not set
AuthRequired == env_bool(environ, "SECUREDOC_REQUIRE_API_KEY", TRUE)

\* a credential is configured: SECUREDOC_API_KEY holds more than white space
CredentialConfigured ==
    /\ environ["SECUREDOC_API_KEY"].set
    /\ \E i \in 1..Len(environ["SECUREDOC_API_KEY"].value) :
         environ["SECUREDOC_API_KEY"].value[i] \notin Whitespace

\* the outcome of the last call of _require_api_key: let through, or 401
LetThrough == ~gate.auth.raised
Unauthorized ==
    /\ gate.auth.raised
    /\ gate.auth.status_code = 401
    /\ gate.auth.detail = "Unauthorized"

\* with authentication disabled every request is let through with an empty
\* caller identity, whatever key it carries
DisabledAuthLetsThrough ==
    (requests > 0 /\ ~AuthRequired) => (LetThrough /\ gate.auth.api_key = <<>>)

\* C14 as stated: with authentication required and a credential configured,
\* a request is let through if and only if its X-API-Key equals the
\* configured credential, and gets 401 otherwise; with authentication
\* disabled every request is let through with an empty caller identity
LetThroughIffKeyEqual ==
    /\ (requests > 0 /\ AuthRequired /\ CredentialConfigured) =>
         /\ LetThrough <=>
              /\ request.x_api_key.set
              /\ request.x_api_key.value = environ["SECUREDOC_API_KEY"].value
         /\ ~LetThrough => Unauthorized
    /\ DisabledAuthLetsThrough

\* C14: with authentication required and a credential configured, a request
\* is let through if and only if it carries an X-API-Key that, with the white
\* space around it removed, equals the configured credential with the white
\* space around it removed; the caller identity is that trimmed key; a
\* missing, empty or different key gets 401.  With authentication disabled
\* every request is let through with an empty caller identity
LetThroughIffTrimmedKeyEqual ==
    /\ (requests > 0 /\ AuthRequired /\ CredentialConfigured) =>
         /\ LetThrough <=>
              /\ request.x_api_key.set
              /\ Strip(request.x_api_key.value) = Strip(environ["SECUREDOC_API_KEY"].value)
         /\ LetThrough => gate.auth.api_key = Strip(request.x_api_key.value)
         /\ ~LetThrough => Unauthorized
    /\ DisabledAuthLetsThrough

\* C14 witness: a key followed by a space was let through against the
\* credential without the space
PaddedKeyLetThrough ==
    /\ requests > 0
    /\ AuthRequired
    /\ environ["SECUREDOC_API_KEY"].value = <<"k","1">>
    /\ request.x_api_key.value = <<"k","1"," ">>
    /\ LetThrough

-----------------------------------------------------------------------------
(* Rate limiter claims *)

\* the settings of the limiter as the environment gives them
LimiterEnabled == env_bool(environ, "SECUREDOC_RATE_LIMIT_ENABLED", TRUE)
RateSetting == ParseFloat(Getenv(environ, "SECUREDOC_RATE_LIMIT_RPS", <<"2">>))
BurstSetting == ParseFloat(Getenv(environ, "SECUREDOC_RATE_LIMIT_BURST", <<"5">>))
SettingsNumeric == ~RateSetting.raised /\ ~BurstSetting.raised

\* the limiter is enabled with a positive rate and a positive burst
Limiting ==
    /\ LimiterEnabled
    /\ SettingsNumeric
    /\ FracLess(Frac(0, 1), RateSetting.value)
    /\ FracLess(Frac(0, 1), BurstSetting.value)

\* the positions in the log of the attempts of one identity
AttemptsOf(identity) ==
    { j \in 1..Len(attempts) : attempts[j].identity = identity }

\* C16: under a positive rate and burst every stored bucket holds at least
\* zero tokens and at most burst tokens
BucketWithinBounds ==
    Limiting =>
        \A i \in DOMAIN rate_state :
            /\ FracLeq(Frac(0, 1), rate_state[i].tokens)
            /\ FracLeq(rate_state[i].tokens, BurstSetting.value)

\* C16 witness: after a wait and a further admission a bucket is empty while
\* another bucket holds tokens
BucketDrainedAfterWait ==
    /\ Limiting
    /\ FracLess(Frac(0, 1), monotonic)
    /\ \E i, j \in DOMAIN rate_state :
         /\ rate_state[i].tokens = Frac(0, 1)
         /\ rate_state[i].last = monotonic
         /\ FracLess(Frac(0, 1), rate_state[j].tokens)

\* the burst setting is a whole number
WholeBurst == BurstSetting.value.d = 1

\* the attempts of an identity made with no time elapsed since its first one,
\* in order of arrival: position j is its n-th attempt
Immediate(identity, j) ==
    /\ j \in AttemptsOf(identity)
    /\ \A m \in AttemptsOf(identity) : m <= j => attempts[m].now = attempts[j].now
Ordinal(identity, j) == Cardinality({ m \in AttemptsOf(identity) : m <= j })

\* the attempts of the identity before position j that were admitted
Admissions(identity, j) ==
    { m \in AttemptsOf(identity) : m < j /\ ~attempts[m].raised }

\* C15: with a positive rate and a whole-number burst b, the first b attempts
\* of an identity made with no time elapsed are admitted and the one after
\* them is refused with 429 and a retry_after of at least 1; an attempt made
\* at least 1/rate seconds after the identity's last admission is admitted
TokenBucketBurst ==
    (Limiting /\ WholeBurst) =>
        \A j \in 1..Len(attempts) :
            LET identity == attempts[j].identity
                b        == BurstSetting.value.n
            IN  /\ (Immediate(identity, j) /\ Ordinal(identity, j) <= b) =>
                       ~attempts[j].raised
                /\ (Immediate(identity, j) /\ Ordinal(identity, j) = b + 1) =>
                       /\ attempts[j].raised
                       /\ attempts[j].status_code = 429
                       /\ attempts[j].retry_after >= 1
                /\ \A m \in Admissions(identity, j) :
                       ( /\ \A o \in Admissions(identity, j) : o <= m
                         /\ FracLeq(FracDiv(Frac(1, 1), RateSetting.value),
                                    FracSub(attempts[j].now, attempts[m].now)) )
                       => ~attempts[j].raised

\* C15 witness: with a burst of two, an identity was admitted twice and
\* refused the third time without any wait, and admitted again after a wait
BurstSpentThenAdmittedAfterWait ==
    /\ Limiting
    /\ BurstSetting.value = Frac(2, 1)
    /\ Len(attempts) = 4
    /\ \A j \in 1..4 : attempts[j].identity = attempts[1].identity
    /\ \A j \in 1..3 : attempts[j].now = Frac(0, 1)
    /\ ~attempts[1].raised /\ ~attempts[2].raised
    /\ attempts[3].raised
    /\ FracLess(Frac(0, 1), attempts[4].now)
    /\ ~attempts[4].raised

\* the last call of the limiter: what the bucket of its identity held before
\* it (a bucket not seen before holds burst tokens, filled now), and the
\* tokens available to it: min(burst, stored + elapsed * rate)
SeenBefore == gate.identity \in DOMAIN gate.before
StoredTokens ==
    IF SeenBefore THEN gate.before[gate.identity].tokens ELSE BurstSetting.value
ElapsedSeconds ==
    IF SeenBefore THEN FracSub(gate.now, gate.before[gate.identity].last)
    ELSE Frac(0, 1)
AvailableTokens ==
    LET grown == FracAdd(StoredTokens, FracMul(ElapsedSeconds, RateSetting.value))
    IN  IF FracLess(grown, BurstSetting.value) THEN grown ELSE BurstSetting.value

\* C17: at each attempt the available tokens are min(burst, stored_tokens +
\* elapsed_seconds * rate); the attempt is admitted if and only if that value
\* is at least 1, and an admitted attempt stores exactly that value minus one
\* together with the current time, in the bucket of its identity only
AdmissionSemantics ==
    (Limiting /\ requests > 0) =>
        /\ ~gate.limit.raised <=> FracLeq(Frac(1, 1), AvailableTokens)
        /\ ~gate.limit.raised =>
             /\ DOMAIN rate_state = DOMAIN gate.before \cup {gate.identity}
             /\ rate_state[gate.identity] =
                  [tokens |-> FracSub(AvailableTokens, Frac(1, 1)), last |-> gate.now]
             /\ \A i \in DOMAIN gate.before :
                  i # gate.identity => rate_state[i] = gate.before[i]

\* C17 witness: an attempt was admitted on tokens that a wait had partly
\* refilled, below the burst
AdmittedOnPartialRefill ==
    /\ Limiting
    /\ requests > 0
    /\ SeenBefore
    /\ FracLess(Frac(0, 1), ElapsedSeconds)
    /\ FracLess(AvailableTokens, BurstSetting.value)
    /\ ~gate.limit.raised
    /\ rate_state = gate.limit.state

\* ceil(x) for x >= 0
Ceiling(a) == (a.n + a.d - 1) \div a.d

\* C18: for every refused attempt the Retry-After value equals
\* max(1, ceil((1 - tokens) / rate)), tokens being the refilled token count
\* at the time of the attempt
RetryAfterIsCeiling ==
    (Limiting /\ requests > 0 /\ gate.limit.raised) =>
        gate.limit.retry_after =
            Max(1, Ceiling(FracDiv(FracSub(Frac(1, 1), AvailableTokens),
                                   RateSetting.value)))

\* C19: with the limiter enabled and a rate or burst setting that is not a
\* number, every attempt fails with 503 and no bucket is ever written; with
\* numeric settings of which one is zero or negative, every attempt is
\* admitted and no bucket is ever written
RateLimitConfiguration ==
    /\ (LimiterEnabled /\ ~SettingsNumeric) =>
         /\ rate_state = <<>>
         /\ \A j \in 1..Len(attempts) :
              attempts[j].raised /\ attempts[j].status_code = 503
         /\ requests > 0 =>
              /\ gate.limit.detail = "Rate limit misconfigured"
              /\ gate.before = rate_state
    /\ (LimiterEnabled /\ SettingsNumeric /\ ~Limiting) =>
         /\ rate_state = <<>>
         /\ \A j \in 1..Len(attempts) : ~attempts[j].raised

\* C19 witness: with a burst setting that is not a number and a rate of zero,
\* both callers have been turned away
BothCallersMetMisconfiguration ==
    /\ LimiterEnabled
    /\ BurstSetting.raised
    /\ ~RateSetting.raised
    /\ RateSetting.value = Frac(0, 1)
    /\ \E j, m \in 1..Len(attempts) :
         /\ attempts[j].identity # attempts[m].identity
         /\ attempts[j].status_code = 503
         /\ attempts[m].status_code = 503

-----------------------------------------------------------------------------
(* Endpoint claims: the order of the checks *)

\* the bucket of the caller of the last request is empty at the time of the
\* request: it holds less than one token and no time has passed since it was
\* written
BucketEmptyAtRequest ==
    /\ gate.identity \in DOMAIN gate.before
    /\ FracLess(gate.before[gate.identity].tokens, Frac(1, 1))
    /\ gate.before[gate.identity].last = gate.now

\* the last request failed authentication, or its body failed validation
TurnedAwayBeforeHandler ==
    /\ requests > 0
    /\ gate.auth.raised \/ ~gate.valid

\* C20: authentication and validation of the body are decided before rate
\* limiting: a request that fails authentication gets 401 or 503, one that
\* passes it with an invalid body gets 422, also when the caller's bucket is
\* empty, and such a request takes no token and leaves the rate state as it
\* was
ChecksBeforeRateLimit ==
    TurnedAwayBeforeHandler =>
        /\ pc = "exited"
        /\ gate.auth.raised =>
             /\ exit.status \in {401, 503}
             /\ exit.status = gate.auth.status_code
        /\ (~gate.auth.raised /\ ~gate.valid) => exit.status = 422
        /\ ~gate.entered
        /\ rate_state = gate.before

\* C20 witness: a caller whose bucket is empty sent an invalid body with its
\* key and got 422
InvalidBodyOnEmptyBucket ==
    /\ TurnedAwayBeforeHandler
    /\ ~gate.auth.raised
    /\ BucketEmptyAtRequest
    /\ exit.status = 422

-----------------------------------------------------------------------------
(* LLM client claims *)

BreakerReopens ==
    (llm_api_key # "" /\ BreakerOpen(circuit_breaker_failures)) ~> (pc = "awaiting")

\* C23: a generate call makes at most max_retries network attempts, whatever
\* the upstream answers, and every call that is under way ends
BoundedRetries ==
    /\ [](call.posts <= Max(max_retries, 0))
    /\ [](pc = "awaiting" => attempt < max_retries)
    /\ (pc \in {"awaiting", "sleeping"}) ~> (pc = "done")

\* C23 witness: with three attempts configured, a call raised after the
\* third attempt, the first two having been retried
CallRaisedAfterLastAttempt ==
    /\ max_retries = 3
    /\ pc = "done"
    /\ call.outcome = "raised"
    /\ call.posts = 3
    /\ Len(call.trace) = 3

\* C24: after a retryable failure (a timeout or a status of the retryable
\* set) on attempt k, counted from 0, with k < max_retries - 1, generate
\* sleeps exactly retry_delay * 2^k before attempt k+1; after a retryable
\* failure on the last attempt it does not sleep and the call raises
BackoffSchedule ==
    \A j \in 1..Len(call.trace) :
        LET e == call.trace[j]
        IN  /\ e.attempt = j - 1
            /\ e.failure = "retryable" =>
                 /\ e.attempt < max_retries - 1 =>
                      /\ e.slept = llm_retry_delay * 2^(e.attempt)
                      /\ (j = Len(call.trace) /\ call.outcome = "none") =>
                           \/ pc = "sleeping" /\ call.posts = j
                           \/ pc = "awaiting" /\ call.posts = j + 1
                 /\ e.attempt >= max_retries - 1 =>
                      /\ e.slept = 0
                      /\ j = Len(call.trace)
                      /\ call.posts = j
                      /\ call.outcome = "raised"

\* C24 witness: the third attempt is under way after sleeps of one and of two
\* seconds
BackedOffTwice ==
    /\ pc = "awaiting"
    /\ call.posts = 3
    /\ Len(call.trace) = 2
    /\ call.trace[1].failure = "retryable" /\ call.trace[1].slept = 1
    /\ call.trace[2].failure = "retryable" /\ call.trace[2].slept = 2

\* C25: a failure that is not retryable (a status outside the retryable set,
\* or an exception that is neither a status error nor a timeout) ends the
\* call at once: no sleep and no further attempt follows, and the call raises
NonRetryableEndsCall ==
    \A j \in 1..Len(call.trace) :
        call.trace[j].failure = "nonretryable" =>
            /\ j = Len(call.trace)
            /\ call.trace[j].slept = 0
            /\ call.posts = j
            /\ pc = "done"
            /\ call.outcome = "raised"

\* C25 witness: the second attempt of a call, made after a retried timeout or
\* status, met a failure that is not retryable
NotRetriedOnSecondAttempt ==
    /\ Len(call.trace) = 2
    /\ call.trace[1].failure = "retryable"
    /\ call.trace[2].failure = "nonretryable"
    /\ call.outcome = "raised"

\* C26: for every configured max_retries, a generate call that ends by
\* raising has increased the consecutive-failure counter by exactly one, and
\* a call that returns the fallback leaves the counter unchanged
FailureAccounting ==
    /\ call.outcome = "raised" => circuit_breaker_failures = call.before + 1
    /\ call.outcome = "fallback" => circuit_breaker_failures = call.before

\* C27: a generate call cancelled while it awaits the network or a backoff
\* sleep leaves the consecutive-failure counter as it was: the call counts
\* neither as a success nor as a failure
CancellationLeavesCounter ==
    call.outcome = "cancelled" => circuit_breaker_failures = call.before

\* C27 witness: a call was cancelled during a backoff sleep on a client that
\* had failed before
CancelledWhileSleeping ==
    /\ call.outcome = "cancelled"
    /\ call.before > 0
    /\ Len(call.trace) = call.posts
    /\ call.posts > 0

\* C28: the fallback response is a function of the masked text alone: a call
\* with the same masked text and any other task gets the same fallback
\* response
FallbackOfMaskedTextAlone ==
    call.outcome = "fallback" =>
        \A k \in Tasks : call.result = generate_mock_response(ClientPrompt, k)


\* the request was answered by the fallback: it passed the three checks, and
\* generate returned the mock response without a request upstream
ServedDegraded ==
    /\ pc = "exited"
    /\ request # NoRequest
    /\ gate.refusal.status_code = 0
    /\ payload = NoPayload
    /\ UsesFallback(llm_api_key, circuit_breaker_failures)

\* C29: a valid, authenticated and admitted request that arrives while the
\* breaker is open or no upstream credential is configured is answered 200,
\* for every text and in strict and non-strict re-identification mode
DegradedIsSuccess == ServedDegraded => exit.status = 200


-----------------------------------------------------------------------------
(* Concurrency claims *)

\* the attempts of the identity that were admitted
AdmittedOf(identity) == { j \in AttemptsOf(identity) : ~attempts[j].raised }

\* the tokens an identity could have spent by now: a full bucket at its first
\* attempt and the refill since then
TokensAvailable(identity) ==
    LET first == CHOOSE j \in AttemptsOf(identity) :
                     \A m \in AttemptsOf(identity) : j <= m
    IN  FracAdd(BurstSetting.value,
                FracMul(RateSetting.value, FracSub(monotonic, attempts[first].now)))

\* C30: under a positive rate and burst, whatever the interleaving of the
\* requests in flight, the number of requests of an identity that were
\* admitted is at most the number of tokens that were available to it (no
\* two requests spend the same token)
NoLostUpdate ==
    Limiting =>
        \A j \in 1..Len(attempts) :
            FracLeq(Frac(Cardinality(AdmittedOf(attempts[j].identity)), 1),
                    TokensAvailable(attempts[j].identity))

\* C30 witness: two requests of one caller were accepted before either ran,
\* with one token in the bucket; one was admitted and waits for the upstream,
\* the other was refused with 429
TwoCompetedForLastToken ==
    /\ Limiting
    /\ BurstSetting.value = Frac(1, 1)
    /\ \E i, j \in DOMAIN inflight :
         /\ i # j
         /\ inflight[i].caller = inflight[j].caller
         /\ inflight[i].accepted = <<>> /\ inflight[j].accepted = <<>>
         /\ inflight[i].pc = "awaiting"
         /\ inflight[j].pc = "done" /\ inflight[j].status_code = 429


\* the deliveries in flight that were answered 200 for the identifier
AnsweredOk(event_id) ==
    { i \in DOMAIN inflight :
        /\ inflight[i].pc = "done"
        /\ inflight[i].status = 200
        /\ inflight[i].event.id = event_id }

\* the business effects executed for the identifier
EffectsOf(event_id) ==
    { k \in DOMAIN recorded_log : recorded_log[k].event_id = event_id }

\* C31: whatever the interleaving of concurrently handled verified deliveries,
\* the ledger never holds more than MAX_PROCESSED_EVENTS entries, and while no
\* entry has been evicted the deliveries of one identifier that were answered
\* 200 executed its business effect exactly once between them
LedgerMutualExclusion ==
    /\ Len(processed_events) <= MAX_PROCESSED_EVENTS
    /\ Len(recorded_log) <= MAX_PROCESSED_EVENTS =>
          \A event_id \in EventIds :
              /\ Cardinality(EffectsOf(event_id)) <= 1
              /\ AnsweredOk(event_id) # {} =>
                    /\ Cardinality(EffectsOf(event_id)) = 1
                    /\ Cardinality({ i \in AnsweredOk(event_id) :
                                       inflight[i].recorded }) = 1

\* C31 witness: two deliveries of one identifier were received before either
\* was handled; one executed the effect, the other was answered 'already
\* processed'
ConcurrentDuplicateAnswered ==
    \E i, j \in DOMAIN inflight :
        /\ i # j
        /\ inflight[i].event.id = inflight[j].event.id
        /\ inflight[i].received = <<>> /\ inflight[j].received = <<>>
        /\ inflight[i].pc = "done" /\ inflight[i].recorded
        /\ inflight[j].pc = "done" /\ inflight[j].status = 200
        /\ inflight[j].message = "Event already processed"


\* C32: in every interleaving of concurrent generate calls on one client, no
\* request upstream, first attempt or retry, is started while the counter of
\* consecutive failures is at or above the threshold
NoAttemptWhileOpen ==
    \A k \in DOMAIN attempts : ~BreakerOpen(attempts[k].failures)


-----------------------------------------------------------------------------
(* Substitution claims *)

\* the working text of the replacement loop when it reaches the i-th match in
\* sorted order: the input with the matches before it applied
WorkingText(i) == ApplyReplacements(text, SubSeq(all_matches, 1, i - 1), 1)

\* C33: when anonymize applies the replacement of a match, the characters of
\* the working text at [match.start, match.end) are still the original text
\* of that match
OffsetsStayValid ==
    phase # "new" =>
        \A i \in DOMAIN all_matches :
            Slice(WorkingText(i), all_matches[i].start, all_matches[i].end)
                = all_matches[i].original


\* the detected spans are pairwise disjoint
SpansDisjoint ==
    \A i, j \in DOMAIN all_matches :
        i # j => \/ all_matches[i].end <= all_matches[j].start
                 \/ all_matches[j].end <= all_matches[i].start

\* the input from offset p on, read left to right, with each span replaced by
\* the placeholder of its match and every other character kept
RECURSIVE MaskedFrom(_)
MaskedFrom(p) ==
    IF p >= Len(text) THEN <<>>
    ELSE IF \E i \in DOMAIN all_matches : all_matches[i].start = p
    THEN LET i == CHOOSE i \in DOMAIN all_matches : all_matches[i].start = p
         IN  all_matches[i].placeholder \o MaskedFrom(all_matches[i].end)
    ELSE <<text[p + 1]>> \o MaskedFrom(p + 1)

\* the offsets of the masked text at which the placeholder occurs
OccurrencesOf(placeholder) ==
    { p \in 0..(Len(anonymized_text) - Len(placeholder)) :
        Slice(anonymized_text, p, p + Len(placeholder)) = placeholder }

\* C34: when the detected spans are pairwise disjoint, the masked text is the
\* input with each span replaced by the placeholder of its match and every
\* other character unchanged, each placeholder occurs exactly once in the
\* masked text, and reidentify on the unmodified masked text returns the input
DisjointSpansMasked ==
    (phase # "new" /\ SpansDisjoint) =>
        /\ anonymized_text = MaskedFrom(0)
        /\ \A i \in DOMAIN all_matches :
               Cardinality(OccurrencesOf(all_matches[i].placeholder)) = 1
        /\ (phase = "reidentified" /\ response = anonymized_text) =>
               ~reidentified.raised /\ reidentified.text = text

\* C34 witness: an input with two disjoint spans of the same original was
\* masked and the unmodified masked text was re-identified
RepeatedOriginalRoundTrip ==
    /\ phase = "reidentified"
    /\ response = anonymized_text
    /\ SpansDisjoint
    /\ Len(all_matches) >= 2
    /\ all_matches[1].original = all_matches[2].original
    /\ all_matches[1].placeholder # all_matches[2].placeholder
    /\ reidentified.text = text


-----------------------------------------------------------------------------
(* Webhook gate and ledger claims *)

\* the identifier of the last delivery was in the ledger when it arrived
InLedgerAtArrival == delivery.event.id \in LedgerIds(delivery.ledger_before)

\* C35: the replay window is checked before the ledger is looked up: a
\* verified delivery whose identifier is in the ledger and whose timestamp is
\* outside the window is rejected with 400 at the replay check and is not
\* answered 'already processed'
ReplayCheckBeforeLookup ==
    (Verified(delivery) /\ InLedgerAtArrival /\ TimeDifference(delivery) > 300)
        => /\ delivery.status = 400
           /\ ~AlreadyProcessed(delivery)
           /\ delivery.reached = "replay_check"
           /\ StepOf(delivery.reached) < StepOf("idempotency_check")

\* C35 witness: a recorded identifier was delivered again with a creation time
\* 301 seconds back and was rejected
StaleRedeliveryRejected ==
    /\ Verified(delivery)
    /\ InLedgerAtArrival
    /\ delivery.event.has_created
    /\ delivery.event.created = delivery.now - 301
    /\ delivery.status = 400


\* the business effect of the identifier had completed before the last
\* delivery
EffectedBefore(event_id) ==
    \E i \in DOMAIN LogBefore : LogBefore[i].event_id = event_id

\* C36: an identifier is written to the ledger only when its business effect
\* has completed: a delivery that is rejected at a gate or fails in processing
\* leaves the ledger as it was, every identifier in the ledger had its effect
\* completed, and a verified in-window delivery of an identifier whose effect
\* never completed is processed, not answered 'already processed'
LedgerWrittenAfterEffect ==
    deliveries > 0 =>
        /\ delivery.status # 200 => NoEffect(delivery)
        /\ processed_events # delivery.ledger_before =>
               (delivery.status = 200 /\ delivery.recorded)
        /\ \A event_id \in LedgerIds(processed_events) :
               \E i \in DOMAIN recorded_log : recorded_log[i].event_id = event_id
        /\ ( /\ Verified(delivery)
             /\ TimeDifference(delivery) <= 300
             /\ ~EffectedBefore(delivery.event.id) ) =>
               /\ ~AlreadyProcessed(delivery)
               /\ delivery.status = 200 <=> delivery.recorded
               /\ delivery.status = 200 <=> ~ProcessingRaises(delivery)

\* C36 witness: an identifier whose earlier in-window delivery failed in
\* processing was delivered again and processed
ProcessedAfterFailedDelivery ==
    /\ Verified(delivery)
    /\ delivery.seen_before
    /\ ~EffectedBefore(delivery.event.id)
    /\ delivery.status = 200 /\ delivery.recorded


\* the other identifiers recorded since the identifier of the last delivery
\* was last recorded before it
RecordedSince(event_id) ==
    LET mine == {i \in DOMAIN LogBefore : LogBefore[i].event_id = event_id}
    IN  { LogBefore[k].event_id : k \in {k \in DOMAIN LogBefore : k > SetMax(mine)} }
            \ {event_id}

-----------------------------------------------------------------------------
(* Rate state claims *)

\* C38: an attempt refused with 429 leaves the rate state as it was, the
\* stored tokens and the last-refill time of its identity included, and no
\* attempt creates or changes the bucket of another identity
RefusalLeavesRateState ==
    requests > 0 =>
        /\ (gate.limit.raised /\ gate.limit.status_code = 429) =>
               rate_state = gate.before
        /\ \A i \in (DOMAIN rate_state \cup DOMAIN gate.before) \ {gate.identity} :
               /\ i \in DOMAIN gate.before
               /\ i \in DOMAIN rate_state
               /\ rate_state[i] = gate.before[i]

\* C38 witness: after a wait an identity with a bucket was refused on a
\* partial refill, while another identity held a bucket
RefusedOnPartialRefill ==
    /\ Limiting
    /\ requests > 0
    /\ gate.limit.raised /\ gate.limit.status_code = 429
    /\ SeenBefore
    /\ FracLess(Frac(0, 1), ElapsedSeconds)
    /\ FracLess(Frac(0, 1), AvailableTokens)
    /\ \E i \in DOMAIN rate_state : i # gate.identity


\* the attempts of the identity between positions m and j that were admitted
AdmittedBetween(identity, m, j) ==
    { o \in AttemptsOf(identity) : m < o /\ o < j /\ ~attempts[o].raised }

\* C39: under a positive rate and a burst of at least 1, after an attempt was
\* refused with Retry-After r, an attempt of the same identity made at least
\* r seconds later with no admission of that identity in between is admitted
RetryHintSufficient ==
    (Limiting /\ FracLeq(Frac(1, 1), BurstSetting.value)) =>
        \A m, j \in 1..Len(attempts) :
            ( /\ m < j
              /\ attempts[m].identity = attempts[j].identity
              /\ attempts[m].raised /\ attempts[m].status_code = 429
              /\ FracLeq(Frac(attempts[m].retry_after, 1),
                         FracSub(attempts[j].now, attempts[m].now))
              /\ AdmittedBetween(attempts[m].identity, m, j) = {} )
            => ~attempts[j].raised

====
